---- MODULE Spec2Model ----
(***************************************************************************)
(* Model of the clubhouse client library: the tri-state ("partial update") *)
(* encoder of the Update*Params types (resources.go, nullable.Do), the     *)
(* facade's update operations that send the encoded body, and the earlier  *)
(* content-based UpdateCategory.                                           *)
(*                                                                         *)
(* A pointer is an address (a string); the heap maps addresses to the      *)
(* values they point to.  The package-level variables (ResetID, ...) are   *)
(* fixed addresses; a cell made by ID(), String() or Time() gets a fresh   *)
(* address.  The JSON text is built as TLA+ strings, byte for byte.        *)
(***************************************************************************)
EXTENDS Integers, Sequences, FiniteSets, TLC

(* ---- bounds ---------------------------------------------------------- *)
\* number of fields a caller sets in one params value
MaxSet == 2
\* number of HTTP requests a behaviour may send
MaxRequests == 2

(* ---- pointers and the package-level variables ------------------------- *)
\* the nil pointer
NIL == "nil"

\* ResetID = ID(-1), ResetEstimate = ID(-1): two distinct cells, same content
ResetID == "ResetID"
ResetEstimate == "ResetEstimate"
\* ResetTime = Time(time.Time{})
ResetTime == "ResetTime"
\* ResetColor = String(""), EmptyString = String(""): distinct cells
ResetColor == "ResetColor"
EmptyString == "EmptyString"
\* Archived = &ptrue (also ShowThermometer), Unarchived = &pfalse
Archived == "ptrue"
Unarchived == "pfalse"

(* ---- time.Time ------------------------------------------------------- *)
\* A time is a year and the rest of its RFC 3339 text.
\* time.Time{}: January 1, year 1, 00:00:00 UTC
ZeroTime == [year |-> 1, rest |-> "-01-01T00:00:00Z"]
\* the time of the tests, 2018-04-20T16:20:00+04:00
testTime == [year |-> 2018, rest |-> "-04-20T16:20:00+04:00"]
\* a time whose year is outside [0,9999]: Time.MarshalJSON refuses it
farTime == [year |-> 10000, rest |-> "-01-01T00:00:00Z"]

\* Time.IsZero: the instant is January 1, year 1, 00:00:00 UTC
IsZero(t) == t = ZeroTime

\* the heap right after package initialisation
InitHeap ==
  [a \in {ResetID, ResetEstimate, ResetTime, ResetColor, EmptyString,
          Archived, Unarchived} |->
     CASE a = ResetID -> -1
       [] a = ResetEstimate -> -1
       [] a = ResetTime -> ZeroTime
       [] a = ResetColor -> ""
       [] a = EmptyString -> ""
       [] a = Archived -> TRUE
       [] a = Unarchived -> FALSE]

(* ---- encoding/json on the values the params can hold ------------------ *)
\* a marshal result: the bytes, or an error
Ok(s) == [err |-> FALSE, raw |-> s]
Fail == [err |-> TRUE, raw |-> ""]

\* a JSON string literal (the strings of the model need no escaping)
Quote(s) == "\"" \o s \o "\""

\* the year of a time, four digits
Pad4(y) ==
  IF y < 10 THEN "000" \o ToString(y)
  ELSE IF y < 100 THEN "00" \o ToString(y)
  ELSE IF y < 1000 THEN "0" \o ToString(y)
  ELSE ToString(y)

\* Time.MarshalJSON: an error unless the year is in [0,9999]
TimeMarshalJSON(t) ==
  IF t.year < 0 \/ t.year >= 10000 THEN Fail
  ELSE Ok(Quote(Pad4(t.year) \o t.rest))

\* a, b, c joined by commas
RECURSIVE Join(_)
Join(ss) ==
  IF Len(ss) = 0 THEN ""
  ELSE IF Len(ss) = 1 THEN ss[1]
  ELSE ss[1] \o "," \o Join(Tail(ss))

\* CreateLabelParams / CreateCategoryParams as list elements: every field
\* is omitempty; the model's elements carry a name only
NamedObject(e) == "{" \o Quote("name") \o ":" \o Quote(e.Name) \o "}"

\* json.Marshal of a non-empty value v of Go type typ
jsonMarshalValue(typ, v, h) ==
  CASE typ = "*int" -> Ok(ToString(h[v]))
    [] typ = "*bool" -> Ok(IF h[v] THEN "true" ELSE "false")
    [] typ = "*string" -> Ok(Quote(h[v]))
    [] typ = "*time.Time" -> TimeMarshalJSON(h[v])
    [] typ = "string" -> Ok(Quote(v))
    \* a slice: <<>> is the nil slice, <<elems>> a slice with elements elems
    [] typ = "[]string" ->
         Ok("[" \o Join([i \in 1..Len(v[1]) |-> Quote(v[1][i])]) \o "]")
    [] typ = "[]int" ->
         Ok("[" \o Join([i \in 1..Len(v[1]) |-> ToString(v[1][i])]) \o "]")
    [] typ = "[]object" ->
         Ok("[" \o Join([i \in 1..Len(v[1]) |-> NamedObject(v[1][i])]) \o "]")
    \* *json.RawMessage: <<raw>>, raw being <<>> (a nil slice) or <<bytes>>;
    \* RawMessage.MarshalJSON writes null for a nil slice
    [] typ = "*json.RawMessage" -> Ok(IF v[1] = <<>> THEN "null" ELSE v[1][1])

\* the zero value of a Go type
Zero(typ) ==
  CASE typ \in {"*int", "*bool", "*string", "*time.Time"} -> NIL
    [] typ = "string" -> ""
    [] OTHER -> <<>>

\* isEmptyValue that forgets the empty string: only nil is empty
isEmptyValueNilOnly(typ, v) == typ # "string" /\ v = Zero(typ)

\* the slice types of the params
SliceTypes == {"[]string", "[]int", "[]object"}

\* encoding/json's isEmptyValue, the test of omitempty: a nil pointer, an
\* empty string, a slice of length 0 (nil or not)
isEmptyValue(typ, v) ==
  \/ v = Zero(typ)
  \/ typ \in SliceTypes /\ Len(v[1]) = 0

(* ---- json.Marshal of a struct ------------------------------------------ *)
\* a field of a params struct: its Go name and type
P(name, typ) == [name |-> name, typ |-> typ]
\* a wire field whose tag lost its omitempty
FWithoutOmitempty(name, key, typ) ==
  [name |-> name, key |-> key, typ |-> typ, omitempty |-> FALSE]

\* a field of a wire struct: Go name, JSON key, Go type, omitempty tag
F(name, key, typ) == [name |-> name, key |-> key, typ |-> typ, omitempty |-> TRUE]
\* a field tagged with a key only (no omitempty)
FAlways(name, key, typ) == [name |-> name, key |-> key, typ |-> typ, omitempty |-> FALSE]

\* the encoding of one field that is not omitted: a nil pointer or a nil
\* slice is written as null
jsonMarshalField(fd, v, h) ==
  IF fd.typ # "string" /\ v = Zero(fd.typ) THEN Ok("null")
  ELSE jsonMarshalValue(fd.typ, v, h)

\* the indices of the fields json.Marshal writes, in declaration order
RECURSIVE writtenFields(_, _, _)
writtenFields(fields, val, i) ==
  IF i > Len(fields) THEN <<>>
  ELSE LET fd == fields[i]
           rest == writtenFields(fields, val, i + 1)
       IN IF fd.omitempty /\ isEmptyValue(fd.typ, val[fd.name])
          THEN rest ELSE <<i>> \o rest

\* json.Marshal of struct value val with the fields `fields`: the members
\* of the object in declaration order and the bytes, or an error when the
\* encoding of a field fails
jsonMarshalStruct(fields, val, h) ==
  LET idx == writtenFields(fields, val, 1)
      res == [k \in 1..Len(idx) |->
                jsonMarshalField(fields[idx[k]], val[fields[idx[k]].name], h)]
      members == [k \in 1..Len(idx) |->
                    [key |-> fields[idx[k]].key, raw |-> res[k].raw]]
  IN IF \E k \in 1..Len(idx) : res[k].err
     THEN [err |-> TRUE, members |-> <<>>, bytes |-> ""]
     ELSE [err |-> FALSE, members |-> members,
           bytes |-> "{" \o Join([k \in 1..Len(idx) |->
                        Quote(members[k].key) \o ":" \o members[k].raw]) \o "}"]

(* ---- nullable.Do ------------------------------------------------------- *)
\* one entry of a nullable list: the input pointer and its type, the name
\* of the output slot, and the result of the null() closure (which Do
\* calls only for a non-nil input)
N(in, typ, out, null) == [in |-> in, typ |-> typ, out |-> out, null |-> null]

\* nullable.Do without the IsNil test: a nil input is marshalled too (null)
RECURSIVE nullableDoNoNilCheck(_, _, _)
nullableDoNoNilCheck(n, out, h) ==
  IF n = <<>> THEN out
  ELSE LET f == Head(n)
           m == jsonMarshalValue(f.typ, f.in, h)
           raw == IF f.null \/ f.in = NIL THEN <<"null">>
                  ELSE IF m.err THEN <<>> ELSE <<m.raw>>
       IN nullableDoNoNilCheck(Tail(n), [out EXCEPT ![f.out] = <<raw>>], h)

\* nullable.Do that never asks null(): every non-nil input is marshalled
RECURSIVE nullableDoNeverNull(_, _, _)
nullableDoNeverNull(n, out, h) ==
  IF n = <<>> THEN out
  ELSE LET f == Head(n)
           m == jsonMarshalValue(f.typ, f.in, h)
           raw == IF m.err THEN <<>> ELSE <<m.raw>>
           out1 == IF f.in # NIL THEN [out EXCEPT ![f.out] = <<raw>>] ELSE out
       IN nullableDoNeverNull(Tail(n), out1, h)

\* nullable.Do: for every entry whose input is not nil, store a pointer to
\* the raw message: `null` when null() holds, else json.Marshal(in), whose
\* error is dropped (raw is then the nil slice)
RECURSIVE nullableDo(_, _, _)
nullableDo(n, out, h) ==
  IF n = <<>> THEN out
  ELSE LET f == Head(n)
           m == jsonMarshalValue(f.typ, f.in, h)
           raw == IF f.null THEN <<"null">>
                  ELSE IF m.err THEN <<>> ELSE <<m.raw>>
           out1 == IF f.in # NIL THEN [out EXCEPT ![f.out] = <<raw>>] ELSE out
       IN nullableDo(Tail(n), out1, h)

(* ---- the update-params types and their MarshalJSON -------------------- *)
\* the nil *json.RawMessage of a freshly built wire struct
NoRaw == <<>>

\* UpdateCategoryParams
UpdateCategoryParams ==
  << P("Archived", "*bool"), P("Color", "*string"), P("Name", "*string") >>
updateCategoryParamsResolved ==
  << F("Archived", "archived", "*bool"),
     F("Color", "color", "*json.RawMessage"),
     F("Name", "name", "*string") >>
\* MarshalJSON whose null() tests the content of Color, not the pointer
UpdateCategoryParamsMarshalJSONByContent(p, h) ==
  LET out == [Archived |-> p.Archived, Color |-> NoRaw, Name |-> p.Name]
      res == nullableDo(
        << N(p.Color, "*string", "Color", p.Color # NIL /\ h[p.Color] = "") >>,
        out, h)
  IN jsonMarshalStruct(updateCategoryParamsResolved, res, h)

UpdateCategoryParamsMarshalJSON(p, h) ==
  LET out == [Archived |-> p.Archived, Color |-> NoRaw, Name |-> p.Name]
      res == nullableDo(
        << N(p.Color, "*string", "Color", p.Color = ResetColor) >>, out, h)
  IN jsonMarshalStruct(updateCategoryParamsResolved, res, h)

\* UpdateLabelParams
UpdateLabelParams ==
  << P("Archived", "*bool"), P("Color", "*string"), P("Name", "*string") >>
updateLabelParamsResolved ==
  << F("Archived", "archived", "*bool"),
     F("Color", "color", "*json.RawMessage"),
     F("Name", "name", "*string") >>
UpdateLabelParamsMarshalJSON(p, h) ==
  LET out == [Archived |-> p.Archived, Color |-> NoRaw, Name |-> p.Name]
      res == nullableDo(
        << N(p.Color, "*string", "Color", p.Color = ResetColor) >>, out, h)
  IN jsonMarshalStruct(updateLabelParamsResolved, res, h)

\* UpdateEpicParams
UpdateEpicParams ==
  << P("AfterID", "*int"), P("Archived", "*bool"), P("BeforeID", "*int"),
     P("CompletedAtOverride", "*time.Time"), P("Deadline", "*time.Time"),
     P("Description", "*string"), P("FollowerIDs", "[]string"),
     P("Labels", "[]object"), P("MilestoneID", "*int"), P("Name", "string"),
     P("OwnerIDs", "[]string"), P("StartedAtOverride", "*time.Time"),
     P("State", "string") >>
updateEpicParamsResolved ==
  << F("AfterID", "after_id", "*int"),
     F("Archived", "archived", "*bool"),
     F("BeforeID", "before_id", "*int"),
     F("CompletedAtOverride", "completed_at_override", "*json.RawMessage"),
     F("Deadline", "deadline", "*json.RawMessage"),
     F("Description", "description", "*string"),
     F("FollowerIDs", "follower_ids", "[]string"),
     F("Labels", "labels", "[]object"),
     F("MilestoneID", "milestone_id", "*json.RawMessage"),
     F("Name", "name", "string"),
     F("OwnerIDs", "owner_ids", "[]string"),
     F("StartedAtOverride", "started_at_override", "*json.RawMessage"),
     F("State", "state", "string") >>
\* the null() closures of the three times call IsZero on the pointed-to
\* time; the one of MilestoneID compares the pointer with ResetID
UpdateEpicParamsMarshalJSON(p, h) ==
  LET out == [AfterID |-> p.AfterID, Archived |-> p.Archived,
              BeforeID |-> p.BeforeID, CompletedAtOverride |-> NoRaw,
              Deadline |-> NoRaw, Description |-> p.Description,
              FollowerIDs |-> p.FollowerIDs, Labels |-> p.Labels,
              MilestoneID |-> NoRaw, Name |-> p.Name, OwnerIDs |-> p.OwnerIDs,
              StartedAtOverride |-> NoRaw, State |-> p.State]
      res == nullableDo(
        << N(p.CompletedAtOverride, "*time.Time", "CompletedAtOverride",
             p.CompletedAtOverride # NIL /\ IsZero(h[p.CompletedAtOverride])),
           N(p.StartedAtOverride, "*time.Time", "StartedAtOverride",
             p.StartedAtOverride # NIL /\ IsZero(h[p.StartedAtOverride])),
           N(p.Deadline, "*time.Time", "Deadline",
             p.Deadline # NIL /\ IsZero(h[p.Deadline])),
           N(p.MilestoneID, "*int", "MilestoneID", p.MilestoneID = ResetID) >>,
        out, h)
  IN jsonMarshalStruct(updateEpicParamsResolved, res, h)

\* UpdateMilestoneParams
UpdateMilestoneParams ==
  << P("AfterID", "*int"), P("BeforeID", "*int"), P("Categories", "[]object"),
     P("CompletedAtOverride", "*time.Time"), P("Description", "*string"),
     P("Name", "*string"), P("StartedAtOverride", "*time.Time"),
     P("State", "string") >>
updateMilestoneParamsResolved ==
  << F("AfterID", "after_id", "*int"),
     F("BeforeID", "before_id", "*int"),
     F("Categories", "categories", "[]object"),
     F("CompletedAtOverride", "completed_at_override", "*json.RawMessage"),
     F("Description", "description", "*string"),
     F("Name", "name", "*string"),
     F("StartedAtOverride", "started_at_override", "*json.RawMessage"),
     F("State", "state", "string") >>
UpdateMilestoneParamsMarshalJSON(p, h) ==
  LET out == [AfterID |-> p.AfterID, BeforeID |-> p.BeforeID,
              Categories |-> p.Categories, CompletedAtOverride |-> NoRaw,
              Description |-> p.Description, Name |-> p.Name,
              StartedAtOverride |-> NoRaw, State |-> p.State]
      res == nullableDo(
        << N(p.CompletedAtOverride, "*time.Time", "CompletedAtOverride",
             p.CompletedAtOverride = ResetTime),
           N(p.StartedAtOverride, "*time.Time", "StartedAtOverride",
             p.StartedAtOverride = ResetTime) >>,
        out, h)
  IN jsonMarshalStruct(updateMilestoneParamsResolved, res, h)

\* UpdateStoriesParams
UpdateStoriesParams ==
  << P("AfterID", "*int"), P("Archived", "*bool"), P("Deadline", "*time.Time"),
     P("EpicID", "*int"), P("Estimate", "*int"),
     P("FollowerIDsAdd", "[]string"), P("FollowerIDsRemove", "[]string"),
     P("LabelsAdd", "[]object"), P("LabelsRemove", "[]object"),
     P("LinkedFileIDs", "[]int"), P("OwnerIDsAdd", "[]string"),
     P("OwnerIDsRemove", "[]string"), P("ProjectID", "*int"),
     P("RequestedByID", "*string"), P("StoryIDs", "[]int"),
     P("StoryType", "string"), P("WorkflowStateID", "*int") >>
updateStoriesParamsResolved ==
  << F("AfterID", "after_id", "*int"),
     F("Archived", "archived", "*bool"),
     F("Deadline", "deadline", "*json.RawMessage"),
     F("EpicID", "epic_id", "*json.RawMessage"),
     F("Estimate", "estimate", "*json.RawMessage"),
     F("FollowerIDsAdd", "follower_ids_add", "[]string"),
     F("FollowerIDsRemove", "follower_ids_remove", "[]string"),
     F("LabelsAdd", "labels_add", "[]object"),
     F("LabelsRemove", "labels_remove", "[]object"),
     F("LinkedFileIDs", "linked_file_ids", "[]int"),
     F("OwnerIDsAdd", "owner_ids_add", "[]string"),
     F("OwnerIDsRemove", "owner_ids_remove", "[]string"),
     F("ProjectID", "project_id", "*int"),
     F("RequestedByID", "requested_by_id", "*string"),
     F("StoryIDs", "story_ids", "[]int"),
     F("StoryType", "story_type", "string"),
     F("WorkflowStateID", "workflow_state_id", "*int") >>
UpdateStoriesParamsMarshalJSON(p, h) ==
  LET out == [AfterID |-> p.AfterID, Archived |-> p.Archived,
              Deadline |-> NoRaw, EpicID |-> NoRaw, Estimate |-> NoRaw,
              FollowerIDsAdd |-> p.FollowerIDsAdd,
              FollowerIDsRemove |-> p.FollowerIDsRemove,
              LabelsAdd |-> p.LabelsAdd, LabelsRemove |-> p.LabelsRemove,
              LinkedFileIDs |-> p.LinkedFileIDs,
              OwnerIDsAdd |-> p.OwnerIDsAdd,
              OwnerIDsRemove |-> p.OwnerIDsRemove,
              ProjectID |-> p.ProjectID, RequestedByID |-> p.RequestedByID,
              StoryIDs |-> p.StoryIDs, StoryType |-> p.StoryType,
              WorkflowStateID |-> p.WorkflowStateID]
      res == nullableDo(
        << N(p.Deadline, "*time.Time", "Deadline", p.Deadline = ResetTime),
           N(p.EpicID, "*int", "EpicID", p.EpicID = ResetID),
           N(p.Estimate, "*int", "Estimate", p.Estimate = ResetEstimate) >>,
        out, h)
  IN jsonMarshalStruct(updateStoriesParamsResolved, res, h)

\* UpdateStoryParams
UpdateStoryParams ==
  << P("AfterID", "*int"), P("Archived", "*bool"), P("BeforeID", "*int"),
     P("BranchIDs", "[]int"), P("CommitIDs", "[]int"),
     P("CompletedAtOverride", "*time.Time"), P("Deadline", "*time.Time"),
     P("Description", "*string"), P("EpicID", "*int"), P("Estimate", "*int"),
     P("FileIDs", "[]int"), P("FollowerIDs", "[]string"),
     P("Labels", "[]object"), P("LinkedFileIDs", "[]int"),
     P("Name", "*string"), P("OwnerIDs", "[]string"), P("ProjectID", "*int"),
     P("RequestedByID", "*string"), P("StartedAtOverride", "*time.Time"),
     P("StoryType", "string"), P("WorkflowStateID", "*int") >>
updateStoryParamsResolved ==
  << F("AfterID", "after_id", "*int"),
     F("Archived", "archived", "*bool"),
     F("BeforeID", "before_id", "*int"),
     F("BranchIDs", "branch_ids", "[]int"),
     F("CommitIDs", "commit_ids", "[]int"),
     F("CompletedAtOverride", "completed_at_override", "*json.RawMessage"),
     F("Deadline", "deadline", "*json.RawMessage"),
     F("Description", "description", "*string"),
     F("EpicID", "epic_id", "*json.RawMessage"),
     F("Estimate", "estimate", "*json.RawMessage"),
     F("FileIDs", "file_ids", "[]int"),
     F("FollowerIDs", "follower_ids", "[]string"),
     F("Labels", "labels", "[]object"),
     F("LinkedFileIDs", "linked_file_ids", "[]int"),
     F("Name", "name", "*string"),
     F("OwnerIDs", "owner_ids", "[]string"),
     F("ProjectID", "project_id", "*int"),
     F("RequestedByID", "requested_by_id", "*string"),
     F("StartedAtOverride", "started_at_override", "*json.RawMessage"),
     F("StoryType", "story_type", "string"),
     F("WorkflowStateID", "workflow_state_id", "*int") >>
UpdateStoryParamsMarshalJSON(p, h) ==
  LET out == [AfterID |-> p.AfterID, Archived |-> p.Archived,
              BeforeID |-> p.BeforeID, BranchIDs |-> p.BranchIDs,
              CommitIDs |-> p.CommitIDs, CompletedAtOverride |-> NoRaw,
              Deadline |-> NoRaw, Description |-> p.Description,
              EpicID |-> NoRaw, Estimate |-> NoRaw, FileIDs |-> p.FileIDs,
              FollowerIDs |-> p.FollowerIDs, Labels |-> p.Labels,
              LinkedFileIDs |-> p.LinkedFileIDs, Name |-> p.Name,
              OwnerIDs |-> p.OwnerIDs, ProjectID |-> p.ProjectID,
              RequestedByID |-> p.RequestedByID, StartedAtOverride |-> NoRaw,
              StoryType |-> p.StoryType,
              WorkflowStateID |-> p.WorkflowStateID]
      res == nullableDo(
        << N(p.Deadline, "*time.Time", "Deadline", p.Deadline = ResetTime),
           N(p.CompletedAtOverride, "*time.Time", "CompletedAtOverride",
             p.CompletedAtOverride = ResetTime),
           N(p.EpicID, "*int", "EpicID", p.EpicID = ResetID),
           N(p.Estimate, "*int", "Estimate", p.Estimate = ResetEstimate),
           N(p.StartedAtOverride, "*time.Time", "StartedAtOverride",
             p.StartedAtOverride = ResetTime) >>,
        out, h)
  IN jsonMarshalStruct(updateStoryParamsResolved, res, h)

\* UpdateProjectParams: no MarshalJSON, the struct's own tags are the wire
\* schema
UpdateProjectParams ==
  << F("Abbreviation", "abbreviation", "*string"),
     F("Archived", "archived", "*bool"),
     F("Color", "color", "*string"),
     F("DaysToThermometer", "days_to_thermometer", "*int"),
     F("Description", "description", "*string"),
     F("FollowerIDs", "follower_ids", "[]string"),
     F("Name", "name", "*string"),
     F("ShowThermometer", "show_thermometer", "*bool"),
     F("TeamID", "team_id", "*int") >>

\* UpdateFileParams: no MarshalJSON either
UpdateFileParams ==
  << F("CreatedAt", "created_at", "*time.Time"),
     F("Description", "description", "*string"),
     F("ExternalID", "external_id", "*string"),
     F("Name", "name", "*string"),
     F("UpdatedAt", "updated_at", "*time.Time"),
     F("UploaderID", "uploader_id", "*string") >>

(* ---- json.Marshal(params) ------------------------------------------------ *)
\* the params types (kinds) of the current code
MarshalerKinds ==
  {"UpdateCategoryParams", "UpdateLabelParams", "UpdateEpicParams",
   "UpdateStoryParams", "UpdateStoriesParams", "UpdateMilestoneParams"}
PlainKinds == {"UpdateProjectParams", "UpdateFileParams"}

\* the struct declaration of a kind
ParamsStruct(k) ==
  CASE k = "UpdateCategoryParams" -> UpdateCategoryParams
    [] k = "UpdateLabelParams" -> UpdateLabelParams
    [] k = "UpdateEpicParams" -> UpdateEpicParams
    [] k = "UpdateStoryParams" -> UpdateStoryParams
    [] k = "UpdateStoriesParams" -> UpdateStoriesParams
    [] k = "UpdateMilestoneParams" -> UpdateMilestoneParams
    [] k = "UpdateProjectParams" -> UpdateProjectParams
    [] k = "UpdateFileParams" -> UpdateFileParams

\* json.Marshal of a params value: the type's MarshalJSON when it has one,
\* else the reflective struct encoding
jsonMarshal(k, p, h) ==
  CASE k = "UpdateCategoryParams" -> UpdateCategoryParamsMarshalJSON(p, h)
    [] k = "UpdateLabelParams" -> UpdateLabelParamsMarshalJSON(p, h)
    [] k = "UpdateEpicParams" -> UpdateEpicParamsMarshalJSON(p, h)
    [] k = "UpdateStoryParams" -> UpdateStoryParamsMarshalJSON(p, h)
    [] k = "UpdateStoriesParams" -> UpdateStoriesParamsMarshalJSON(p, h)
    [] k = "UpdateMilestoneParams" -> UpdateMilestoneParamsMarshalJSON(p, h)
    [] k = "UpdateProjectParams" -> jsonMarshalStruct(UpdateProjectParams, p, h)
    [] k = "UpdateFileParams" -> jsonMarshalStruct(UpdateFileParams, p, h)

(* ---- the earlier, content-based UpdateCategory ------------------------- *)
\* its UpdateCategoryParams: Color carries no omitempty, Name is a string
UpdateCategoryParamsOld ==
  << F("Archived", "archived", "*bool"),
     FAlways("Color", "color", "*string"),
     F("Name", "name", "string") >>
updateCategoryParamsWithoutColor ==
  << F("Archived", "archived", "*bool"),
     F("Color", "color", "*string"),
     F("Name", "name", "string") >>

\* the body UpdateCategory builds, and the params the caller holds after
\* the call: a non-nil Color with empty content is set to nil in the
\* caller's struct (params is a pointer) before the struct is encoded
UpdateCategoryOldBody(p, h) ==
  IF p.Color = NIL
  THEN [params |-> p,
        enc |-> jsonMarshalStruct(updateCategoryParamsWithoutColor,
                  [Archived |-> p.Archived, Color |-> NIL, Name |-> p.Name], h)]
  ELSE LET p1 == IF h[p.Color] = "" THEN [p EXCEPT !.Color = NIL] ELSE p
       IN [params |-> p1, enc |-> jsonMarshalStruct(UpdateCategoryParamsOld, p1, h)]

(* ---- the client: errors ---------------------------------------------------- *)
\* an error value: its dynamic type, and the code and message of an
\* ErrResponse or the text of any other error
ErrResponse(code, message) ==
  [type |-> "ErrResponse", Code |-> code, Message |-> message]

ErrSchemaMismatch == ErrResponse(400, "Schema mismatch")
ErrUnauthorized == ErrResponse(401, "Unauthorized")
ErrResourceNotFound == ErrResponse(404, "Resource does not exist")
ErrUnprocessable == ErrResponse(422, "Unprocessable")
ErrServerError == ErrResponse(500, "Server error")

\* the nil error
NoError == [type |-> "nil", Code |-> 0, Message |-> ""]

\* the error fmt.Errorf and errors.New make: a new value holding a text
errorString(text) == [type |-> "*errors.errorString", Code |-> 0, Message |-> text]

\* the error a failing transport returns from HTTPClient.Do
TransportError == errorString("dial tcp: connection refused")

\* an ErrClientRequest that keeps neither of the two bodies
ErrClientRequestWithoutBodies(e, method, url, request, response, requestBody, responseBody) ==
  [type |-> "ErrClientRequest", Err |-> e, Method |-> method, URL |-> url,
   Request |-> request, Response |-> response,
   RequestBody |-> "", ResponseBody |-> <<>>]

\* ErrClientRequest: the error HTTPRequest returns
ErrClientRequest(e, method, url, request, response, requestBody, responseBody) ==
  [type |-> "ErrClientRequest", Err |-> e, Method |-> method, URL |-> url,
   Request |-> request, Response |-> response,
   RequestBody |-> requestBody, ResponseBody |-> responseBody]

\* the Error() method of an error value
ErrorText(e) ==
  CASE e.type = "ErrResponse" -> e.Message \o " (" \o ToString(e.Code) \o ")"
    [] e.type = "ErrClientRequest" ->
         "clubhouse client request error: " \o e.Method \o " " \o e.URL \o ": "
           \o (IF e.Err.type = "ErrResponse"
               THEN e.Err.Message \o " (" \o ToString(e.Err.Code) \o ")"
               ELSE e.Err.Message)
    [] OTHER -> e.Message

(* ---- the client: Client, checkSetup, makeURL -------------------------------- *)
DefaultRootURL == "https://api.clubhouse.io/api/"
DefaultVersion == "v2"
DefaultLimiter == "RateLimiter(3)"
DefaultHTTPClient == "http.DefaultClient"

\* a Client value; "" is the unset string, the nil *http.Client and the
\* nil Limiter
Client(token, root, version, httpClient, limiter) ==
  [AuthToken |-> token, RootURL |-> root, Version |-> version,
   HTTPClient |-> httpClient, Limiter |-> limiter]

\* checkSetup that does not look at AuthToken
checkSetupWithoutPanic(cl) ==
  [panic |-> FALSE,
   c |-> [cl EXCEPT
          !.HTTPClient = IF @ = "" THEN DefaultHTTPClient ELSE @,
          !.Version = IF @ = "" THEN DefaultVersion ELSE @,
          !.RootURL = IF @ = "" THEN DefaultRootURL ELSE @,
          !.Limiter = IF @ = "" THEN DefaultLimiter ELSE @]]

\* checkSetup that assigns the defaults whatever the fields hold
checkSetupAlwaysDefault(cl) ==
  IF cl.AuthToken = "" THEN [panic |-> TRUE, c |-> cl]
  ELSE [panic |-> FALSE,
        c |-> [cl EXCEPT
               !.HTTPClient = DefaultHTTPClient,
               !.Version = DefaultVersion,
               !.RootURL = DefaultRootURL,
               !.Limiter = DefaultLimiter]]

\* checkSetup: panic when AuthToken is empty (the Client is untouched);
\* otherwise fill HTTPClient, Version, RootURL and Limiter where unset
checkSetup(cl) ==
  IF cl.AuthToken = "" THEN [panic |-> TRUE, c |-> cl]
  ELSE [panic |-> FALSE,
        c |-> [cl EXCEPT
               !.HTTPClient = IF @ = "" THEN DefaultHTTPClient ELSE @,
               !.Version = IF @ = "" THEN DefaultVersion ELSE @,
               !.RootURL = IF @ = "" THEN DefaultRootURL ELSE @,
               !.Limiter = IF @ = "" THEN DefaultLimiter ELSE @]]

\* a root URL of a local test server, and a text url.Parse rejects
LocalRootURL == "http://localhost:8080"
BadRootURL == ":"

\* url.Parse of a root URL: scheme and host, and the segments of the path
urlParse(u) ==
  CASE u = DefaultRootURL ->
         [err |-> FALSE, host |-> "https://api.clubhouse.io", path |-> <<"api">>]
    [] u = LocalRootURL ->
         [err |-> FALSE, host |-> "http://localhost:8080", path |-> <<>>]
    [] OTHER -> [err |-> TRUE, host |-> "", path |-> <<>>]

\* path.Join of segments, as URL.String() writes it after the host
RECURSIVE pathJoin(_)
pathJoin(segs) ==
  IF segs = <<>> THEN "" ELSE "/" \o Head(segs) \o pathJoin(Tail(segs))

\* makeURL: panics when RootURL does not parse; else RootURL's path joined
\* with Version and the resource, and the token as query
makeURL(cl, resource) ==
  LET urlparts == urlParse(cl.RootURL)
  IN IF urlparts.err THEN [panic |-> TRUE, url |-> ""]
     ELSE [panic |-> FALSE,
           url |-> urlparts.host
                   \o pathJoin(urlparts.path \o <<cl.Version>> \o resource)
                   \o "?token=" \o cl.AuthToken]

(* ---- the client: requests and responses -------------------------------------- *)
\* the methods the operations use, and a text that is no HTTP method
Methods == {"GET", "POST", "PUT", "DELETE"}
BadMethod == "BAD METHOD"

\* the nil *http.Request and the nil *http.Response (no method, no
\* status), the nil []byte
NoRequest == [Method |-> "", URL |-> "", Body |-> "", Header |-> ""]
NoResponse == [StatusCode |-> 0, Body |-> ""]
NoBytes == <<>>

\* http.NewRequest: an error for an invalid method, else the request
NewRequest(method, url, content) ==
  IF method \notin Methods
  THEN [err |-> errorString("net/http: invalid method \"" \o method \o "\""),
        req |-> NoRequest]
  ELSE [err |-> NoError,
        req |-> [Method |-> method, URL |-> url, Body |-> content,
                 Header |-> ""]]

\* the status codes a server answers with
StatusCodes == {200, 201, 204, 400, 401, 403, 404, 422, 500, 503}

\* the switch on resp.StatusCode without its case 404
statusErrorWithout404(code) ==
  CASE code = 400 -> ErrSchemaMismatch
    [] code = 401 -> ErrUnauthorized
    [] code = 422 -> ErrUnprocessable
    [] code = 500 -> ErrServerError
    [] OTHER -> NoError

\* the switch on resp.StatusCode
statusError(code) ==
  CASE code = 400 -> ErrSchemaMismatch
    [] code = 401 -> ErrUnauthorized
    [] code = 404 -> ErrResourceNotFound
    [] code = 422 -> ErrUnprocessable
    [] code = 500 -> ErrServerError
    [] OTHER -> NoError

(* ---- the client: JSON of the response bodies ---------------------------------- *)
\* the bodies a server answers with: nothing, an HTML page, objects with
\* and without a message, a message that is no string, a resource, a list
ResponseBodies ==
  {"", "<html>", "{}", "{\"message\":\"name taken\"}", "{\"message\":42}",
   "{\"id\":1}", "[{\"id\":1}]"}

\* the JSON document a text denotes: whether it is valid JSON, whether it
\* is an object or an array, and for an object its "message" member
\* (<<>> when it has none, else <<type, value>>)
jsonParse(bytes) ==
  CASE bytes = "{}" ->
         [valid |-> TRUE, kind |-> "object", message |-> <<>>]
    [] bytes = "{\"message\":\"name taken\"}" ->
         [valid |-> TRUE, kind |-> "object", message |-> <<"string", "name taken">>]
    [] bytes = "{\"message\":42}" ->
         [valid |-> TRUE, kind |-> "object", message |-> <<"number", "42">>]
    [] bytes = "{\"id\":1}" ->
         [valid |-> TRUE, kind |-> "object", message |-> <<>>]
    [] bytes = "[{\"id\":1}]" ->
         [valid |-> TRUE, kind |-> "array", message |-> <<>>]
    [] OTHER -> [valid |-> FALSE, kind |-> "", message |-> <<>>]

\* json.Unmarshal(bytes, &message) for an errMessage{Message string}: an
\* error for invalid JSON, for a document that is no object and for a
\* message that is no string; an object without message leaves it ""
jsonUnmarshalErrMessage(bytes) ==
  LET d == jsonParse(bytes)
  IN IF ~d.valid \/ d.kind # "object" THEN [err |-> TRUE, Message |-> ""]
     ELSE IF d.message = <<>> THEN [err |-> FALSE, Message |-> ""]
     ELSE IF d.message[1] # "string" THEN [err |-> TRUE, Message |-> ""]
     ELSE [err |-> FALSE, Message |-> d.message[2]]

\* the resource an operation decodes into: none (nil), a struct such as
\* Category, or a slice such as []Category
NoResource == "nil"

\* json.Unmarshal(bytes, &resource): an error unless the text is valid JSON
\* of the resource's shape
jsonUnmarshalResource(resource, bytes) ==
  LET d == jsonParse(bytes)
  IN IF ~d.valid THEN errorString("invalid character or unexpected end of JSON input")
     ELSE IF resource = "struct" /\ d.kind # "object"
       THEN errorString("json: cannot unmarshal array into Go value")
     ELSE IF resource = "slice" /\ d.kind # "array"
       THEN errorString("json: cannot unmarshal object into Go value")
     ELSE NoError

(* ---- the client: search pages -------------------------------------------------- *)
\* number of pages of search results the server holds
MaxPages == 3

\* the token that asks for page i; the first page needs none
Token(i) == IF i = 1 THEN "" ELSE "t" \o ToString(i)

\* page i of n on the server: its stories (two per page, numbered in
\* server order) and the URL of the next page, "" on the last page
Page(i, n) ==
  [Data |-> <<2 * i - 1, 2 * i>>,
   Next |-> IF i < n
            THEN "/api/v2/search/stories?page_size=2&next=" \o Token(i + 1)
            ELSE "",
   Total |-> 2 * n]

\* the SearchParams literal a caller writes: PageSize and Query set
NewSearchParams(next) == [Next |-> next, PageSize |-> 2]

\* SearchParams: Next, PageSize, Query; json.Marshal with omitempty on all
\* three (the model's query is the text hit, its page size 2)
SearchParamsMarshal(p) ==
  "{" \o (IF p.Next = "" THEN "" ELSE Quote("next") \o ":" \o Quote(p.Next) \o ",")
      \o Quote("page_size") \o ":" \o ToString(p.PageSize) \o ","
      \o Quote("query") \o ":" \o Quote("hit") \o "}"

\* the JSON text of a SearchResults value as the server writes it
SearchResultsText(page) ==
  "{" \o Quote("data") \o ":["
      \o Join([i \in 1..Len(page.Data) |->
                 "{" \o Quote("id") \o ":" \o ToString(page.Data[i]) \o "}"])
      \o "]," \o Quote("next") \o ":"
      \o (IF page.Next = "" THEN "null" ELSE Quote(page.Next)) \o ","
      \o Quote("total") \o ":" \o ToString(page.Total) \o "}"

\* a next-page URL that url.Parse rejects (an invalid escape)
BadNextURL == "%zz"

\* a next-page URL that parses but has no "next" in its query
TokenlessNextURL == "/api/v2/search/stories?page_size=2"

\* a server: the number of pages it holds, whether the next-page URL it
\* writes is broken, whether it writes that URL without a "next" token
Servers == [pages : 1..MaxPages, broken : BOOLEAN, tokenless : {FALSE}]

\* the servers that hold more than one page and write the next-page URL
\* without a "next" token
TokenlessServers == [pages : 2..MaxPages, broken : {FALSE}, tokenless : {TRUE}]

\* page i as server sv answers it
ServerPage(sv, i) ==
  IF sv.broken /\ i < sv.pages
  THEN [Page(i, sv.pages) EXCEPT !.Next = BadNextURL]
  ELSE IF sv.tokenless /\ i < sv.pages
  THEN [Page(i, sv.pages) EXCEPT !.Next = TokenlessNextURL]
  ELSE Page(i, sv.pages)

\* every page a server of the model can hold
AllPages ==
  {ServerPage(sv, i) : sv \in Servers \cup TokenlessServers, i \in 1..MaxPages}

\* json.Unmarshal(bytes, &resource) for a SearchResults: the page the text
\* denotes; another object leaves the zero SearchResults; anything else is
\* an error
jsonUnmarshalSearchResults(bytes) ==
  IF \E pg \in AllPages : SearchResultsText(pg) = bytes
  THEN [err |-> NoError,
        page |-> CHOOSE pg \in AllPages : SearchResultsText(pg) = bytes]
  ELSE [err |-> jsonUnmarshalResource("struct", bytes),
        page |-> [Data |-> <<>>, Next |-> "", Total |-> 0]]

\* a token extraction that yields the token of the page after the next
NextTokenSkipsOne(next) ==
  IF \E i \in 1..MaxPages : \E n \in 1..MaxPages : Page(i, n).Next = next /\ i < n
  THEN [err |-> FALSE,
        next |-> Token(2 + CHOOSE i \in 1..MaxPages :
                           \E n \in 1..MaxPages : Page(i, n).Next = next /\ i < n)]
  ELSE [err |-> next = BadNextURL, next |-> ""]

\* url.Parse(page.Next) and Query().Get("next"): the token of a next-page
\* URL
NextToken(next) ==
  IF \E i \in 1..MaxPages : \E n \in 1..MaxPages : Page(i, n).Next = next /\ i < n
  THEN [err |-> FALSE,
        next |-> Token(1 + CHOOSE i \in 1..MaxPages :
                           \E n \in 1..MaxPages : Page(i, n).Next = next /\ i < n)]
  ELSE IF next = BadNextURL THEN [err |-> TRUE, next |-> ""]
  ELSE [err |-> FALSE, next |-> ""]

(* ---- state ----------------------------------------------------------------- *)
VARIABLES
  kind,      \* the params type the caller works with
  params,    \* the caller's params value: field name -> value
  heap,      \* address -> the value the pointer points to
  pc,        \* "build": the caller fills the struct; "encoded": it was encoded
  wire,      \* members (key, raw) of the last encoded object, in order
  body,      \* bytes of the last encoded object
  err,       \* "" | "marshal" | "request": the error of the last operation
  op,        \* the last operation
  takes,     \* number of Limiter.Take() calls
  requests,  \* number of HTTPClient.Do() calls
  c,         \* the Client value: AuthToken, RootURL, Version, HTTPClient, Limiter
  cpc,       \* the statement the running operation of the client is at
  call,      \* the running operation and its arguments
  req,       \* the *http.Request built by http.NewRequest
  resp,      \* the *http.Response HTTPClient.Do returned
  ret,       \* what the last function to return has returned
  log,       \* the limiter acquires and transmissions of the running operation
  calls,     \* number of operations started
  sp,        \* the caller's SearchParams value
  collected, \* SearchStoriesAll's collected stories
  server,    \* the search results the server holds
  goroutines, \* goroutine -> the operation it runs and the statement it is at
  memory,    \* the Client and params values the goroutines were given
  accesses   \* the reads and writes of memory made so far, by goroutine

\* the state of the encoder and of the update operations built on it
encoderVars == <<kind, params, heap, pc, wire, body, err, op, takes, requests>>
\* the state of the client's operations, statement by statement
clientVars == <<c, cpc, call, req, resp, ret, log, calls, sp, collected, server>>

\* the state of two operations running in two goroutines
goroutineVars == <<goroutines, memory, accesses>>

vars == <<encoderVars, clientVars, goroutineVars>>

\* the params type of the content-based UpdateCategory
OldKind == "UpdateCategoryParams (content-based)"
\* the params types json.Marshal is applied to directly
Kinds == MarshalerKinds \cup PlainKinds
\* the params types whose update operation of the Client is modelled
FacadeKinds ==
  {"UpdateCategoryParams", "UpdateLabelParams", "UpdateEpicParams",
   "UpdateMilestoneParams", "UpdateProjectParams", "UpdateFileParams", OldKind}

StructOf(k) == IF k = OldKind THEN UpdateCategoryParamsOld ELSE ParamsStruct(k)

\* the names of the fields of a struct
FieldNames(st) == {st[i].name : i \in 1..Len(st)}

\* the zero value of a params type: T{}
ZeroParams(k) ==
  LET st == StructOf(k)
  IN [n \in FieldNames(st) |-> Zero(st[CHOOSE i \in 1..Len(st) : st[i].name = n].typ)]

\* the fields of p that are set (not the zero value)
SetFields(k, p) ==
  LET st == StructOf(k)
  IN {st[i].name : i \in {j \in 1..Len(st) : p[st[j].name] # Zero(st[j].typ)}}

(* ---- the values a caller puts into a params value ---------------------------- *)
PointerTypes == {"*int", "*bool", "*string", "*time.Time"}

\* package-level pointers a field of the type can be set to
Statics(typ) ==
  CASE typ = "*int" -> {ResetID, ResetEstimate}
    [] typ = "*bool" -> {Archived, Unarchived}
    [] typ = "*string" -> {ResetColor, EmptyString}
    [] typ = "*time.Time" -> {ResetTime}
    [] OTHER -> {}

\* contents of the cells a caller makes with ID(), Int(), String(), Time()
NewValues(typ) ==
  CASE typ = "*int" -> {-1, 0, 124}
    [] typ = "*string" -> {"", "#00ff00"}
    [] typ = "*time.Time" -> {ZeroTime, testTime, farTime}
    [] OTHER -> {}

\* values of the fields that are no pointers: a string, a list with
\* elements, a list without (an empty literal such as []string{})
PlainValues(typ) ==
  CASE typ = "string" -> {"steven"}
    [] typ = "[]string" -> {<< <<"1", "2">> >>, << <<>> >>}
    [] typ = "[]int" -> {<< <<1, 2>> >>, << <<>> >>}
    [] typ = "[]object" -> {<< <<[Name |-> "hi"]>> >>, << <<>> >>}
    [] OTHER -> {}

\* the address of the cell made for field n
NewCell(n) == "&" \o n

\* the heap with one more cell
Alloc(h, a, v) == [x \in DOMAIN h \cup {a} |-> IF x = a THEN v ELSE h[x]]

(* ---- the client: operations --------------------------------------------------- *)
\* number of operations a caller starts
MaxCalls == 2

\* CreateCategoryParams, and the value CreateCategory is given
CreateCategoryParams ==
  << F("Color", "color", "string"), F("ExternalID", "external_id", "string"),
     F("Name", "name", "string"), F("Type", "type", "string") >>
CategoryTypeMilestone == "milestone"

\* no params (nil), or params of type k holding value v with the cells of h
NoParams == <<>>
Params(k, v, h) == << [kind |-> k, value |-> v, heap |-> h] >>

\* an operation of the client as RequestResource or HTTPRequest sees it:
\* its name, the method, the segments of the resource path, the params
\* and the resource to decode into (UploadFiles: the body is the
\* multipart form and the header carries its content type)
Operation(name, method, uri, prms, resource) ==
  [op |-> name, method |-> method, uri |-> uri, params |-> prms,
   resource |-> resource,
   \* locals of RequestResource and HTTPRequest: the encoded body, the URL
   content |-> "", url |-> ""]

\* no operation is running
NoCall == Operation("none", "", <<>>, NoParams, NoResource)

\* UpdateFileParams{CreatedAt: Time(t)}
UpdateFileWith(t) ==
  Params("UpdateFileParams",
         [ZeroParams("UpdateFileParams") EXCEPT !.CreatedAt = NewCell("CreatedAt")],
         Alloc(InitHeap, NewCell("CreatedAt"), t))

\* the operations built on RequestResource that the model runs, with
\* their arguments; CreateCategory has filled params.Type before the call
ResourceOperations ==
  { Operation("ListCategories", "GET", <<"categories">>, NoParams, "slice"),
    Operation("GetCategory", "GET", <<"categories", "1">>, NoParams, "struct"),
    Operation("DeleteCategory", "DELETE", <<"categories", "1">>, NoParams, NoResource),
    Operation("CreateCategory", "POST", <<"categories">>,
              Params("CreateCategoryParams",
                     [Color |-> "", ExternalID |-> "", Name |-> "steven",
                      Type |-> CategoryTypeMilestone], InitHeap),
              "struct") }
  \cup { Operation("UpdateFile", "PUT", <<"files", "1">>, UpdateFileWith(t), "struct")
          : t \in {testTime, farTime} }

\* the operations that call HTTPRequest themselves: UploadFiles, and a
\* caller's own HTTPRequest with a method of its choice
DirectOperations ==
  { Operation("UploadFiles", "POST", <<"files">>, NoParams, "slice"),
    Operation("HTTPRequest", "GET", <<"categories">>, NoParams, NoResource),
    Operation("HTTPRequest", BadMethod, <<"categories">>, NoParams, NoResource) }

\* the search operations; their params is the caller's SearchParams
SearchOperations ==
  { Operation("SearchStories", "GET", <<"search", "stories">>,
              Params("SearchParams", NewSearchParams(""), InitHeap), "struct"),
    Operation("SearchStoriesAll", "GET", <<"search", "stories">>,
              Params("SearchParams", NewSearchParams(""), InitHeap), "struct") }

(* ---- the client: resources addressed by id ---------------------------------------- *)
\* the ids a caller asks for: 0 .. MaxID
MaxID == 1
Ids == 0..MaxID

\* strconv.Itoa
itoa(i) == ToString(i)

\* Category.MakeURL and File.MakeURL: the segments of the resource path
CategoryMakeURL(cat) ==
  IF cat.ID = 0 /\ cat.Name = "" THEN <<"categories">>
  ELSE <<"categories", itoa(cat.ID)>>
FileMakeURL(f) ==
  IF f.ID = 0 THEN <<"files">>
  ELSE <<"files", itoa(f.ID)>>

\* an operation on the item `id` of a collection: the operation as the
\* dispatcher sees it, with the arguments the caller gave
ItemOperation(name, method, collection, id, uri, prms, resource) ==
  Operation(name, method, uri, prms, resource)
    @@ [collection |-> collection, id |-> id]

\* UpdateCategoryParams{} as given to UpdateCategory
NoChange == Params("UpdateCategoryParams", ZeroParams("UpdateCategoryParams"), InitHeap)

\* Get, Update and Delete of a Category and of a File on RequestResource:
\* uri := path.Join(collection, itoa(id))
ItemOperations ==
  UNION {
    { ItemOperation("GetCategory", "GET", "categories", id,
                    <<"categories", itoa(id)>>, NoParams, "struct"),
      ItemOperation("UpdateCategory", "PUT", "categories", id,
                    <<"categories", itoa(id)>>, NoChange, "struct"),
      ItemOperation("DeleteCategory", "DELETE", "categories", id,
                    <<"categories", itoa(id)>>, NoParams, NoResource),
      ItemOperation("GetFile", "GET", "files", id,
                    <<"files", itoa(id)>>, NoParams, "struct"),
      ItemOperation("UpdateFile", "PUT", "files", id,
                    <<"files", itoa(id)>>, UpdateFileWith(testTime), "struct"),
      ItemOperation("DeleteFile", "DELETE", "files", id,
                    <<"files", itoa(id)>>, NoParams, NoResource) }
    : id \in Ids }

\* the name the model gives to an operation of the client that asks the
\* resource for its path
ViaMakeURL(name) == name \o " (MakeURL)"

\* the same operations on getResource, updateResource and deleteResource:
\* category := Category{ID: id}, file := File{ID: id}, and the path is
\* r.MakeURL()
MakeURLOperations ==
  UNION {
    { ItemOperation(ViaMakeURL("GetCategory"), "GET", "categories", id,
                    CategoryMakeURL([ID |-> id, Name |-> ""]), NoParams, "struct"),
      ItemOperation(ViaMakeURL("UpdateCategory"), "PUT", "categories", id,
                    CategoryMakeURL([ID |-> id, Name |-> ""]), NoChange, "struct"),
      ItemOperation(ViaMakeURL("DeleteCategory"), "DELETE", "categories", id,
                    CategoryMakeURL([ID |-> id, Name |-> ""]), NoParams, NoResource),
      ItemOperation(ViaMakeURL("GetFile"), "GET", "files", id,
                    FileMakeURL([ID |-> id]), NoParams, "struct"),
      ItemOperation(ViaMakeURL("UpdateFile"), "PUT", "files", id,
                    FileMakeURL([ID |-> id]), UpdateFileWith(testTime), "struct"),
      ItemOperation(ViaMakeURL("DeleteFile"), "DELETE", "files", id,
                    FileMakeURL([ID |-> id]), NoParams, NoResource) }
    : id \in Ids }

\* the names of the operations that run on RequestWithBody
MakeURLNames == {o.op : o \in MakeURLOperations}

\* json.Marshal(params) in RequestResource
jsonMarshalParams(prms, search) ==
  LET p == prms[1]
  IN CASE p.kind = "SearchParams" ->
            [err |-> FALSE, bytes |-> SearchParamsMarshal(search)]
       [] p.kind = "CreateCategoryParams" ->
            LET enc == jsonMarshalStruct(CreateCategoryParams, p.value, p.heap)
            IN [err |-> enc.err, bytes |-> enc.bytes]
       [] OTHER ->
            LET enc == jsonMarshal(p.kind, p.value, p.heap)
            IN [err |-> enc.err, bytes |-> enc.bytes]

\* a function's return values: the bytes (HTTPRequest), the error, and
\* the resource or list the operation hands to its caller
Return(bytes, e, value) == [bytes |-> bytes, err |-> e, value |-> value]
NoReturn == Return(NoBytes, NoError, <<>>)

\* the client state while no operation of the client is modelled
ClientIdle ==
  /\ c = Client("token", "", "", "", "")
  /\ cpc = "idle"
  /\ call = NoCall
  /\ req = NoRequest
  /\ resp = NoResponse
  /\ ret = NoReturn
  /\ log = <<>>
  /\ calls = 0
  /\ sp = NewSearchParams("")
  /\ collected = <<>>
  /\ server = [pages |-> 1, broken |-> FALSE, tokenless |-> FALSE]

(* ---- two goroutines: memory ---------------------------------------------------- *)
\* the goroutines, and the Client and params values they can be given
Goroutines == {1, 2}
ClientIds == {1, 2}
ParamsIds == {1, 2}

\* a Client that has only its AuthToken, and one the caller has filled
NewClient == Client("token", "", "", "", "")
FilledClient == Client("token", LocalRootURL, "v2", "http.Client", "RateLimiter(0)")

\* memory locations: a field of a Client value, a field of a params value,
\* a package-level variable
ClientField(id, f) == <<"Client", id, f>>
ParamsField(k, id, f) == <<k, id, f>>
PackageVar(name) == <<"package", 0, name>>

\* the accesses of goroutine g that read, or write, the locations locs
Reads(g, locs) == {[g |-> g, loc |-> l, write |-> FALSE] : l \in locs}
Writes(g, locs) == {[g |-> g, loc |-> l, write |-> TRUE] : l \in locs}

\* a goroutine that runs nothing
NoGoroutine ==
  [op |-> "none", client |-> 1, params |-> 1, pc |-> "idle", content |-> "",
   page |-> <<>>, collected |-> <<>>, err |-> NoError]

\* the goroutine state while no goroutines are modelled
GoroutinesIdle ==
  /\ goroutines = [g \in Goroutines |-> NoGoroutine]
  /\ memory = [client |-> [id \in ClientIds |-> NewClient],
               category |-> [id \in ParamsIds |->
                              [Color |-> "", ExternalID |-> "", Name |-> "steven",
                               Type |-> ""]],
               search |-> [id \in ParamsIds |-> NewSearchParams("")]]
  /\ accesses = {}

(* ---- initial state ---------------------------------------------------------- *)
\* the package is initialised, the caller holds the zero value of some
\* params type, nothing was encoded or sent
InitWith(kinds) ==
  /\ kind \in kinds
  /\ params = ZeroParams(kind)
  /\ heap = InitHeap
  /\ pc = "build"
  /\ wire = <<>>
  /\ body = ""
  /\ err = ""
  /\ op = "none"
  /\ takes = 0
  /\ requests = 0
  /\ ClientIdle
  /\ GoroutinesIdle

(* ---- the caller fills the params value -------------------------------------- *)
\* fd, a field of the params type, is still unset in the struct literal the
\* caller writes, and fewer than MaxSet fields are set
CanSet(fd) ==
  /\ pc = "build"
  /\ params[fd.name] = Zero(fd.typ)
  /\ Cardinality(SetFields(kind, params)) < MaxSet

\* Field: ResetID, Field: Archived, ...: a package-level pointer
SetStatic(fd, a) ==
  /\ CanSet(fd)
  /\ a \in Statics(fd.typ)
  /\ params' = [params EXCEPT ![fd.name] = a]
  /\ op' = "set"
  /\ UNCHANGED <<kind, heap, pc, wire, body, err, takes, requests>>
  /\ UNCHANGED clientVars
  /\ UNCHANGED goroutineVars

\* Field: ID(v), String(v), Time(v): a pointer to a new cell
SetNew(fd, v) ==
  /\ CanSet(fd)
  /\ v \in NewValues(fd.typ)
  /\ params' = [params EXCEPT ![fd.name] = NewCell(fd.name)]
  /\ heap' = Alloc(heap, NewCell(fd.name), v)
  /\ op' = "set"
  /\ UNCHANGED <<kind, pc, wire, body, err, takes, requests>>
  /\ UNCHANGED clientVars
  /\ UNCHANGED goroutineVars

\* Field: v for a string or a list
SetPlain(fd, v) ==
  /\ CanSet(fd)
  /\ v \in PlainValues(fd.typ)
  /\ params' = [params EXCEPT ![fd.name] = v]
  /\ op' = "set"
  /\ UNCHANGED <<kind, heap, pc, wire, body, err, takes, requests>>
  /\ UNCHANGED clientVars
  /\ UNCHANGED goroutineVars

(* ---- json.Marshal(&params), as the field tests call it ------------------------ *)
\* MarshalJSON on a pointer receiver that clears a Color holding ResetColor
AfterMarshalJSONClearsColor(p) ==
  IF "Color" \in DOMAIN p /\ p.Color = ResetColor
  THEN [p EXCEPT !.Color = NIL] ELSE p

\* the params value after MarshalJSON returned: the receiver is a copy, and
\* nullable.Do writes to the wire struct only
AfterMarshalJSON(p) == p

Marshal ==
  /\ kind # OldKind
  /\ LET enc == jsonMarshal(kind, params, heap)
     IN /\ wire' = enc.members
        /\ body' = enc.bytes
        /\ err' = IF enc.err THEN "marshal" ELSE ""
  /\ params' = AfterMarshalJSON(params)
  /\ pc' = "encoded"
  /\ op' = "Marshal"
  /\ UNCHANGED <<kind, heap, takes, requests>>
  /\ UNCHANGED clientVars
  /\ UNCHANGED goroutineVars

(* ---- Client.Update<Resource>: RequestResource("PUT", ..., params) ------------ *)
\* json.Marshal(params); on an error return it, nothing is sent; otherwise
\* HTTPRequest: Limiter.Take(), HTTPClient.Do(req), and the outcome of the
\* exchange (ok: a 2xx answer that decodes; else an error)
Update(ok) ==
  /\ kind # OldKind
  /\ requests < MaxRequests
  /\ LET enc == jsonMarshal(kind, params, heap)
     IN /\ wire' = enc.members
        /\ body' = enc.bytes
        /\ IF enc.err
           THEN /\ err' = "marshal"
                /\ UNCHANGED <<takes, requests>>
           ELSE /\ takes' = takes + 1
                /\ requests' = requests + 1
                /\ err' = IF ok THEN "" ELSE "request"
  /\ params' = AfterMarshalJSON(params)
  /\ pc' = "encoded"
  /\ op' = "Update"
  /\ UNCHANGED <<kind, heap>>
  /\ UNCHANGED clientVars
  /\ UNCHANGED goroutineVars

(* ---- the content-based Client.UpdateCategory ---------------------------------- *)
UpdateCategoryOld(ok) ==
  /\ kind = OldKind
  /\ requests < MaxRequests
  /\ LET r == UpdateCategoryOldBody(params, heap)
     IN /\ params' = r.params
        /\ wire' = r.enc.members
        /\ body' = r.enc.bytes
        /\ IF r.enc.err
           THEN /\ err' = "marshal"
                /\ UNCHANGED <<takes, requests>>
           ELSE /\ takes' = takes + 1
                /\ requests' = requests + 1
                /\ err' = IF ok THEN "" ELSE "request"
  /\ pc' = "encoded"
  /\ op' = "UpdateCategory"
  /\ UNCHANGED <<kind, heap>>
  /\ UNCHANGED clientVars
  /\ UNCHANGED goroutineVars

\* the fields of the caller's params type
Fields == {StructOf(kind)[i] : i \in 1..Len(StructOf(kind))}

\* the caller writes a params value and encodes it
Init == InitWith(Kinds)

Next ==
  \/ \E fd \in Fields : \E a \in Statics(fd.typ) : SetStatic(fd, a)
  \/ \E fd \in Fields : \E v \in NewValues(fd.typ) : SetNew(fd, v)
  \/ \E fd \in Fields : \E v \in PlainValues(fd.typ) : SetPlain(fd, v)
  \/ Marshal

Spec == Init /\ [][Next]_vars

\* the caller writes a params value, encodes it and sends it with the
\* client's update operation, any number of times
InitFacade == InitWith(FacadeKinds)

NextFacade ==
  \/ \E fd \in Fields : \E a \in Statics(fd.typ) : SetStatic(fd, a)
  \/ \E fd \in Fields : \E v \in NewValues(fd.typ) : SetNew(fd, v)
  \/ \E fd \in Fields : \E v \in PlainValues(fd.typ) : SetPlain(fd, v)
  \/ Marshal
  \/ \E ok \in BOOLEAN : Update(ok)
  \/ \E ok \in BOOLEAN : UpdateCategoryOld(ok)

SpecFacade == InitFacade /\ [][NextFacade]_vars

(* ---- the client: what the model records ------------------------------------------ *)
\* the model keeps the first MaxRecorded entries of the log and of the
\* collected stories: more than any operation that returns can make
MaxRecorded == 2 * MaxPages + 2
Recorded(seq) == IF Len(seq) > MaxRecorded THEN SubSeq(seq, 1, MaxRecorded) ELSE seq

(* ---- the client: an operation, statement by statement ----------------------------- *)
\* the caller starts operation o: a new call, nothing built or received
Begin(o) ==
  /\ cpc \in {"idle", "returned", "panicked"}
  /\ calls < MaxCalls
  /\ call' = o
  /\ req' = NoRequest
  /\ resp' = NoResponse
  /\ ret' = NoReturn
  /\ log' = <<>>
  /\ collected' = <<>>
  /\ calls' = calls + 1
  /\ UNCHANGED c
  /\ UNCHANGED encoderVars
  /\ UNCHANGED goroutineVars

\* ListCategories, GetCategory, ...: the operation calls RequestResource
StartResourceOperation(o) ==
  /\ Begin(o)
  /\ cpc' = "RequestResource"
  /\ UNCHANGED <<sp, server>>

\* UploadFiles, or the caller's own HTTPRequest: HTTPRequest is called
\* with the body at hand
StartDirectOperation(o) ==
  /\ Begin([o EXCEPT !.content = IF o.op = "UploadFiles" THEN "multipart form" ELSE ""])
  /\ cpc' = "checkSetup"
  /\ UNCHANGED <<sp, server>>

\* the tokens a caller starts a search with
StartTokens == {Token(1), Token(2)}

\* SearchStories, SearchStoriesAll: with the SearchParams value p (the one
\* the caller already holds, or a new literal) against server sv; the
\* call keeps the value params had when the operation started
StartSearch(o, p, sv) ==
  /\ Begin([o EXCEPT !.params = Params("SearchParams", p, InitHeap)])
  /\ sp' = p
  /\ server' = sv
  /\ cpc' = "RequestResource"

\* HTTPRequest returns (bytes, e) to the function that called it
HTTPRequestReturns(bytes, e) ==
  /\ ret' = Return(bytes, e, <<>>)
  /\ cpc' = IF call.op = "HTTPRequest" THEN "returned" ELSE "HTTPRequest returned"

\* RequestResource that drops the error of json.Marshal(params) and goes
\* on with the empty body
RequestResourceMarshalIgnoresError ==
  /\ cpc = "RequestResource"
  /\ IF call.params = NoParams
     THEN UNCHANGED call
     ELSE LET m == jsonMarshalParams(call.params, sp)
          IN call' = [call EXCEPT !.content = IF m.err THEN "" ELSE m.bytes]
  /\ cpc' = "checkSetup"
  /\ UNCHANGED <<c, req, resp, ret, log, calls, sp, collected, server>>
  /\ UNCHANGED encoderVars
  /\ UNCHANGED goroutineVars

\* RequestResource up to its call of HTTPRequest: json.Marshal(params)
\* when params is not nil; on an error the operation returns it
RequestResourceMarshal ==
  /\ cpc = "RequestResource"
  /\ IF call.params = NoParams
     THEN /\ cpc' = "checkSetup"
          /\ UNCHANGED <<call, ret>>
     ELSE LET m == jsonMarshalParams(call.params, sp)
          IN IF m.err
             THEN /\ ret' = Return(NoBytes,
                       errorString("could not marshal params, json: error calling MarshalJSON"),
                       <<>>)
                  /\ cpc' = "returned"
                  /\ UNCHANGED call
             ELSE /\ call' = [call EXCEPT !.content = m.bytes]
                  /\ cpc' = "checkSetup"
                  /\ UNCHANGED ret
  /\ UNCHANGED <<c, req, resp, log, calls, sp, collected, server>>
  /\ UNCHANGED encoderVars
  /\ UNCHANGED goroutineVars

\* HTTPRequest: c.checkSetup()
CheckSetup ==
  /\ cpc = "checkSetup"
  /\ LET r == checkSetup(c)
     IN /\ c' = r.c
        /\ cpc' = IF r.panic THEN "panicked" ELSE "makeURL"
  /\ UNCHANGED <<call, req, resp, ret, log, calls, sp, collected, server>>
  /\ UNCHANGED encoderVars
  /\ UNCHANGED goroutineVars

\* HTTPRequest: url := c.makeURL(endpoint)
MakeURL ==
  /\ cpc = "makeURL"
  /\ LET r == makeURL(c, call.uri)
     IN /\ call' = [call EXCEPT !.url = r.url]
        /\ cpc' = IF r.panic THEN "panicked" ELSE "NewRequest"
  /\ UNCHANGED <<c, req, resp, ret, log, calls, sp, collected, server>>
  /\ UNCHANGED encoderVars
  /\ UNCHANGED goroutineVars

\* HTTPRequest: http.NewRequest and the header; an error is returned as
\* an ErrClientRequest without response
BuildRequest ==
  /\ cpc = "NewRequest"
  /\ LET r == NewRequest(call.method, call.url, call.content)
     IN IF r.err # NoError
        THEN /\ HTTPRequestReturns(NoBytes,
                  ErrClientRequest(r.err, call.method, call.url, r.req,
                                   NoResponse, call.content, NoBytes))
             /\ UNCHANGED req
        ELSE /\ req' = [r.req EXCEPT !.Header =
                          IF call.op = "UploadFiles" THEN "multipart/form-data"
                          ELSE "application/json"]
             /\ cpc' = "Take"
             /\ UNCHANGED ret
  /\ UNCHANGED <<c, call, resp, log, calls, sp, collected, server>>
  /\ UNCHANGED encoderVars
  /\ UNCHANGED goroutineVars

\* HTTPRequest that goes on without c.Limiter.Take()
TakeForgotten ==
  /\ cpc = "Take"
  /\ cpc' = "Do"
  /\ UNCHANGED <<c, call, req, resp, ret, log, calls, sp, collected, server>>
  /\ UNCHANGED encoderVars
  /\ UNCHANGED goroutineVars

\* HTTPRequest: c.Limiter.Take() has returned
Take ==
  /\ cpc = "Take"
  /\ log' = Recorded(Append(log, "Take"))
  /\ cpc' = "Do"
  /\ UNCHANGED <<c, call, req, resp, ret, calls, sp, collected, server>>
  /\ UNCHANGED encoderVars
  /\ UNCHANGED goroutineVars

\* the page the server answers a search request with: the one the token
\* of the request body asks for, or 400 when it holds no such page
SearchAnswer(sv, content) ==
  LET asked == {j \in 1..sv.pages :
                  content = SearchParamsMarshal(NewSearchParams(Token(j)))}
  IN IF asked # {}
     THEN [StatusCode |-> 200,
           Body |-> SearchResultsText(ServerPage(sv, CHOOSE j \in asked : TRUE))]
     ELSE [StatusCode |-> 400, Body |-> "{}"]

\* the answers a server can give to the request of the running operation
\* (none while no request is about to be sent)
Answers ==
  IF cpc # "Do" THEN {}
  ELSE IF call.op \in {"SearchStories", "SearchStoriesAll"}
  THEN {SearchAnswer(server, req.Body),
        [StatusCode |-> 500, Body |-> ""],
        [StatusCode |-> 200, Body |-> "<html>"]}
  ELSE [StatusCode : StatusCodes, Body : ResponseBodies]

\* HTTPClient.Do inside a retry: after a transport failure the request is
\* sent once more
DoWithRetry(ok, a) ==
  /\ cpc = "Do"
  /\ log' = Recorded(Append(log, "Do"))
  /\ IF ok
     THEN /\ resp' = a
          /\ cpc' = "ReadAll"
          /\ UNCHANGED ret
     ELSE IF Len(log) < 3
       THEN /\ cpc' = "Take"
            /\ UNCHANGED <<resp, ret>>
     ELSE /\ HTTPRequestReturns(NoBytes,
               ErrClientRequest(TransportError,
                                call.method, call.url, req, NoResponse,
                                call.content, NoBytes))
          /\ UNCHANGED resp
  /\ UNCHANGED <<c, call, req, calls, sp, collected, server>>
  /\ UNCHANGED encoderVars
  /\ UNCHANGED goroutineVars

\* HTTPClient.Do whose failure is reported by a new error that does not
\* hold the transport's error
DoHidesTransportError(ok, a) ==
  /\ cpc = "Do"
  /\ log' = Recorded(Append(log, "Do"))
  /\ IF ok
     THEN /\ resp' = a
          /\ cpc' = "ReadAll"
          /\ UNCHANGED ret
     ELSE /\ HTTPRequestReturns(NoBytes,
               ErrClientRequest(errorString("request failed"),
                                call.method, call.url, req, NoResponse,
                                call.content, NoBytes))
          /\ UNCHANGED resp
  /\ UNCHANGED <<c, call, req, calls, sp, collected, server>>
  /\ UNCHANGED encoderVars
  /\ UNCHANGED goroutineVars

\* HTTPRequest: c.HTTPClient.Do(req): the request is transmitted; the
\* transport fails (the error is returned in an ErrClientRequest) or the
\* server's answer a arrives
Do(ok, a) ==
  /\ cpc = "Do"
  /\ log' = Recorded(Append(log, "Do"))
  /\ IF ok
     THEN /\ resp' = a
          /\ cpc' = "ReadAll"
          /\ UNCHANGED ret
     ELSE /\ HTTPRequestReturns(NoBytes,
               ErrClientRequest(TransportError,
                                call.method, call.url, req, NoResponse,
                                call.content, NoBytes))
          /\ UNCHANGED resp
  /\ UNCHANGED <<c, call, req, calls, sp, collected, server>>
  /\ UNCHANGED encoderVars
  /\ UNCHANGED goroutineVars

\* HTTPRequest: ioutil.ReadAll(resp.Body); an error is returned in an
\* ErrClientRequest with the response
ReadAll(ok) ==
  /\ cpc = "ReadAll"
  /\ IF ok
     THEN /\ cpc' = "switch"
          /\ UNCHANGED ret
     ELSE HTTPRequestReturns(NoBytes,
            ErrClientRequest(errorString("unexpected EOF"), call.method,
                             call.url, req, resp, call.content, NoBytes))
  /\ UNCHANGED <<c, call, req, resp, log, calls, sp, collected, server>>
  /\ UNCHANGED encoderVars
  /\ UNCHANGED goroutineVars

\* the error detail that gets the message appended after any status
errorDetailAlwaysAppended(e, bytes) ==
  LET message == jsonUnmarshalErrMessage(bytes)
  IN IF ~message.err
     THEN errorString(ErrorText(e) \o ": " \o message.Message)
     ELSE e

\* the treatment of a status error: after ErrUnprocessable, when the body
\* decodes into an errMessage, the error becomes
\* fmt.Errorf("%s: %s", err, message.Message)
errorDetail(e, bytes) ==
  IF e = ErrUnprocessable
  THEN LET message == jsonUnmarshalErrMessage(bytes)
       IN IF ~message.err
          THEN errorString(ErrorText(e) \o ": " \o message.Message)
          ELSE e
  ELSE e

\* HTTPRequest: the switch on the status code and the return
StatusSwitch ==
  /\ cpc = "switch"
  /\ call.op \notin MakeURLNames
  /\ LET e == statusError(resp.StatusCode)
     IN IF e # NoError
        THEN HTTPRequestReturns(NoBytes,
               ErrClientRequest(errorDetail(e, resp.Body), call.method, call.url,
                                req, resp, call.content, <<resp.Body>>))
        ELSE HTTPRequestReturns(<<resp.Body>>, NoError)
  /\ UNCHANGED <<c, call, req, resp, log, calls, sp, collected, server>>
  /\ UNCHANGED encoderVars
  /\ UNCHANGED goroutineVars

\* RequestResource after HTTPRequest, and the operation's own return: the
\* error of HTTPRequest as it is; else, when there is a resource, the
\* result of json.Unmarshal(bytes, &resource)
RequestResourceReturn ==
  /\ cpc = "HTTPRequest returned"
  /\ call.op \notin {"UploadFiles", "SearchStories", "SearchStoriesAll"}
  /\ call.op \notin MakeURLNames
  /\ IF ret.err # NoError
     THEN ret' = Return(NoBytes, ret.err, <<>>)
     ELSE IF call.resource = NoResource
       THEN ret' = Return(NoBytes, NoError, <<>>)
     ELSE LET e == jsonUnmarshalResource(call.resource, ret.bytes[1])
          IN ret' = Return(NoBytes, e, IF e = NoError THEN ret.bytes ELSE <<>>)
  /\ cpc' = "returned"
  /\ UNCHANGED <<c, call, req, resp, log, calls, sp, collected, server>>
  /\ UNCHANGED encoderVars
  /\ UNCHANGED goroutineVars

\* UploadFiles after HTTPRequest: both errors are wrapped by fmt.Errorf
UploadFilesReturn ==
  /\ cpc = "HTTPRequest returned"
  /\ call.op = "UploadFiles"
  /\ IF ret.err # NoError
     THEN ret' = Return(NoBytes,
                   errorString("UploadFiles: error making request: " \o ErrorText(ret.err)),
                   <<>>)
     ELSE LET e == jsonUnmarshalResource(call.resource, ret.bytes[1])
          IN ret' = IF e = NoError THEN Return(NoBytes, NoError, ret.bytes)
                    ELSE Return(NoBytes,
                           errorString("UploadFiles: error unmarshaling response: "
                                       \o ErrorText(e)), <<>>)
  /\ cpc' = "returned"
  /\ UNCHANGED <<c, call, req, resp, log, calls, sp, collected, server>>
  /\ UNCHANGED encoderVars
  /\ UNCHANGED goroutineVars

\* SearchStories whose error leaves SearchStoriesAll with the stories
\* collected so far as its result
SearchStoriesReturnKeepsCollected ==
  /\ cpc = "HTTPRequest returned"
  /\ call.op \in {"SearchStories", "SearchStoriesAll"}
  /\ IF ret.err # NoError
     THEN /\ ret' = Return(NoBytes, ret.err, collected)
          /\ cpc' = "returned"
     ELSE LET r == jsonUnmarshalSearchResults(ret.bytes[1])
          IN IF r.err # NoError
             THEN /\ ret' = Return(NoBytes, r.err, collected)
                  /\ cpc' = "returned"
             ELSE /\ ret' = Return(NoBytes, NoError, <<r.page>>)
                  /\ cpc' = IF call.op = "SearchStoriesAll" THEN "page" ELSE "returned"
  /\ UNCHANGED <<c, call, req, resp, log, calls, sp, collected, server>>
  /\ UNCHANGED encoderVars
  /\ UNCHANGED goroutineVars

\* SearchStories after RequestResource: (nil, err) or the decoded page;
\* inside SearchStoriesAll the page goes to the loop
SearchStoriesReturn ==
  /\ cpc = "HTTPRequest returned"
  /\ call.op \in {"SearchStories", "SearchStoriesAll"}
  /\ IF ret.err # NoError
     THEN /\ ret' = Return(NoBytes, ret.err, <<>>)
          /\ cpc' = "returned"
     ELSE LET r == jsonUnmarshalSearchResults(ret.bytes[1])
          IN IF r.err # NoError
             THEN /\ ret' = Return(NoBytes, r.err, <<>>)
                  /\ cpc' = "returned"
             ELSE /\ ret' = Return(NoBytes, NoError, <<r.page>>)
                  /\ cpc' = IF call.op = "SearchStoriesAll" THEN "page" ELSE "returned"
  /\ UNCHANGED <<c, call, req, resp, log, calls, sp, collected, server>>
  /\ UNCHANGED encoderVars
  /\ UNCHANGED goroutineVars

\* SearchStoriesAll, the body of its loop after SearchStories: collect the
\* page's Data; stop when Next is empty; else put the token of the next
\* URL into params.Next (the caller's value) and ask again
SearchStoriesAllPage ==
  /\ cpc = "page"
  /\ LET page == ret.value[1]
         all == Recorded(collected \o page.Data)
         t == NextToken(page.Next)
     IN /\ collected' = all
        /\ IF page.Next = ""
           THEN /\ ret' = Return(NoBytes, NoError, all)
                /\ cpc' = "returned"
                /\ UNCHANGED sp
           ELSE IF t.err
             THEN /\ ret' = Return(NoBytes,
                             errorString("error parsing next page url"), <<>>)
                  /\ cpc' = "returned"
                  /\ UNCHANGED sp
           ELSE /\ sp' = [sp EXCEPT !.Next = t.next]
                /\ cpc' = "RequestResource"
                /\ UNCHANGED ret
  /\ UNCHANGED <<c, call, req, resp, log, calls, server>>
  /\ UNCHANGED encoderVars
  /\ UNCHANGED goroutineVars

\* the Client values a caller makes: with or without AuthToken, RootURL
\* and Limiter
Clients ==
  {Client(token, root, "", "", limiter) :
     token \in {"", "token"},
     root \in {"", LocalRootURL, BadRootURL},
     limiter \in {"", "RateLimiter(0)"}}

\* a caller makes a Client and runs operations on it, one after another
InitClient ==
  /\ kind = "UpdateFileParams"
  /\ params = ZeroParams(kind)
  /\ heap = InitHeap
  /\ pc = "build"
  /\ wire = <<>>
  /\ body = ""
  /\ err = ""
  /\ op = "none"
  /\ takes = 0
  /\ requests = 0
  /\ c \in Clients
  /\ cpc = "idle"
  /\ call = NoCall
  /\ req = NoRequest
  /\ resp = NoResponse
  /\ ret = NoReturn
  /\ log = <<>>
  /\ calls = 0
  /\ sp = NewSearchParams("")
  /\ collected = <<>>
  /\ server = [pages |-> 1, broken |-> FALSE, tokenless |-> FALSE]
  /\ GoroutinesIdle

NextClient ==
  \/ \E o \in ResourceOperations : StartResourceOperation(o)
  \/ \E o \in DirectOperations : StartDirectOperation(o)
  \/ \E o \in SearchOperations :
       \E p \in {sp} \cup {NewSearchParams(t) : t \in StartTokens} :
         \E sv \in Servers : StartSearch(o, p, sv)
  \/ RequestResourceMarshal
  \/ CheckSetup
  \/ MakeURL
  \/ BuildRequest
  \/ Take
  \/ \E ok \in BOOLEAN : \E a \in Answers : Do(ok, a)
  \/ \E ok \in BOOLEAN : ReadAll(ok)
  \/ StatusSwitch
  \/ RequestResourceReturn
  \/ UploadFilesReturn
  \/ SearchStoriesReturn
  \/ SearchStoriesAllPage

SpecClient == InitClient /\ [][NextClient]_vars

(* ---- the client: Get, Update and Delete by id -------------------------------------- *)
\* GetCategory, ... on getResource and deleteResource call Request with
\* an empty body; on updateResource, createOrUpdateResource encodes the
\* params first, as RequestResource does
StartMakeURLOperation(o) ==
  /\ Begin(o)
  /\ cpc' = IF o.params = NoParams THEN "checkSetup" ELSE "RequestResource"
  /\ UNCHANGED <<sp, server>>

\* RequestWithBody: the switch on the status code and the return; the
\* error of the status is returned as it is
RequestWithBodySwitch ==
  /\ cpc = "switch"
  /\ call.op \in MakeURLNames
  /\ LET e == statusError(resp.StatusCode)
     IN IF e # NoError
        THEN HTTPRequestReturns(NoBytes,
               ErrClientRequest(e, call.method, call.url,
                                req, resp, call.content, <<resp.Body>>))
        ELSE HTTPRequestReturns(<<resp.Body>>, NoError)
  /\ UNCHANGED <<c, call, req, resp, log, calls, sp, collected, server>>
  /\ UNCHANGED encoderVars
  /\ UNCHANGED goroutineVars

\* getResource, deleteResource and createOrUpdateResource after the
\* request: the error as it is; deleteResource decodes nothing,
\* getResource decodes a body that is not empty, createOrUpdateResource
\* decodes every body
MakeURLOperationReturn ==
  /\ cpc = "HTTPRequest returned"
  /\ call.op \in MakeURLNames
  /\ IF ret.err # NoError
     THEN ret' = Return(NoBytes, ret.err, <<>>)
     ELSE IF call.method = "DELETE"
       THEN ret' = Return(NoBytes, NoError, <<>>)
     ELSE IF call.method = "GET" /\ ret.bytes[1] = ""
       THEN ret' = Return(NoBytes, NoError, ret.bytes)
     ELSE LET e == jsonUnmarshalResource(call.resource, ret.bytes[1])
          IN ret' = Return(NoBytes, e, IF e = NoError THEN ret.bytes ELSE <<>>)
  /\ cpc' = "returned"
  /\ UNCHANGED <<c, call, req, resp, log, calls, sp, collected, server>>
  /\ UNCHANGED encoderVars
  /\ UNCHANGED goroutineVars

\* a caller gets, updates and deletes categories and files by id, on
\* either client
NextResource ==
  \/ \E o \in ItemOperations : StartResourceOperation(o)
  \/ \E o \in MakeURLOperations : StartMakeURLOperation(o)
  \/ RequestResourceMarshal
  \/ CheckSetup
  \/ MakeURL
  \/ BuildRequest
  \/ Take
  \/ \E ok \in BOOLEAN : \E a \in Answers : Do(ok, a)
  \/ \E ok \in BOOLEAN : ReadAll(ok)
  \/ StatusSwitch
  \/ RequestWithBodySwitch
  \/ RequestResourceReturn
  \/ MakeURLOperationReturn

SpecResource == InitClient /\ [][NextResource]_vars

(* ---- the client: searches that run to their end ------------------------------------ *)
\* a statement of the running search: the program goes on as long as it
\* has not returned, the limiter grants every acquire and the transport
\* answers or fails
SearchStep ==
  \/ RequestResourceMarshal
  \/ CheckSetup
  \/ MakeURL
  \/ BuildRequest
  \/ Take
  \/ \E ok \in BOOLEAN : \E a \in Answers : Do(ok, a)
  \/ \E ok \in BOOLEAN : ReadAll(ok)
  \/ StatusSwitch
  \/ SearchStoriesReturn
  \/ SearchStoriesAllPage

\* a caller runs searches, one after another, against servers that write
\* their next-page URL with or without a token
NextSearch ==
  \/ \E o \in SearchOperations :
       \E p \in {sp} \cup {NewSearchParams(t) : t \in StartTokens} :
         \E sv \in Servers \cup TokenlessServers : StartSearch(o, p, sv)
  \/ SearchStep

SpecSearch == InitClient /\ [][NextSearch]_vars /\ WF_vars(SearchStep)

(* ---- two goroutines: operations running concurrently ------------------------------ *)
\* the operations the goroutines run: one that takes no params, one that
\* fills its params, one that walks pages through its params
GoOperations == {"ListCategories", "CreateCategory", "SearchStoriesAll"}

\* the server the goroutines talk to holds two pages of search results
GoServer == [pages |-> 2, broken |-> FALSE, tokenless |-> FALSE]

\* the kind of params an operation is given ("" when it takes none)
GoParamsKind(o) ==
  CASE o = "CreateCategory" -> "category"
    [] o = "SearchStoriesAll" -> "search"
    [] OTHER -> ""

\* goroutine g goes to statement p
GoTo(g, p) == goroutines' = [goroutines EXCEPT ![g].pc = p]

\* goroutine g calls operation o on Client cid with params pid
GoStart(g, o, cid, pid) ==
  /\ goroutines[g].pc = "idle"
  /\ goroutines' = [goroutines EXCEPT
       ![g] = [NoGoroutine EXCEPT !.op = o, !.client = cid, !.params = pid,
                 !.pc = IF o = "CreateCategory" THEN "CreateCategory"
                        ELSE "RequestResource"]]
  /\ UNCHANGED <<memory, accesses>>
  /\ UNCHANGED <<encoderVars, clientVars>>

\* CreateCategory: if params.Type == "" { params.Type = CategoryTypeMilestone }
GoCreateCategory(g) ==
  LET gr == goroutines[g]
      type == ParamsField("category", gr.params, "Type")
  IN /\ gr.pc = "CreateCategory"
     /\ IF memory.category[gr.params].Type = ""
        THEN /\ memory' = [memory EXCEPT
                  !.category[gr.params].Type = CategoryTypeMilestone]
             /\ accesses' = accesses \cup Reads(g, {type}) \cup Writes(g, {type})
        ELSE /\ UNCHANGED memory
             /\ accesses' = accesses \cup Reads(g, {type})
     /\ GoTo(g, "RequestResource")
     /\ UNCHANGED <<encoderVars, clientVars>>

\* RequestResource: json.Marshal(params) reads every field of the params
GoMarshal(g) ==
  LET gr == goroutines[g]
      k == GoParamsKind(gr.op)
  IN /\ gr.pc = "RequestResource"
     /\ CASE k = "category" ->
               /\ goroutines' = [goroutines EXCEPT
                    ![g].pc = "checkSetup",
                    ![g].content =
                       jsonMarshalStruct(CreateCategoryParams,
                                         memory.category[gr.params], InitHeap).bytes]
               /\ accesses' = accesses \cup
                    Reads(g, {ParamsField(k, gr.params, f) :
                                f \in {"Color", "ExternalID", "Name", "Type"}})
          [] k = "search" ->
               /\ goroutines' = [goroutines EXCEPT
                    ![g].pc = "checkSetup",
                    ![g].content = SearchParamsMarshal(memory.search[gr.params])]
               /\ accesses' = accesses \cup
                    Reads(g, {ParamsField(k, gr.params, f) :
                                f \in {"Next", "PageSize", "Query"}})
          [] OTHER ->
               /\ GoTo(g, "checkSetup")
               /\ UNCHANGED accesses
     /\ UNCHANGED memory
     /\ UNCHANGED <<encoderVars, clientVars>>

\* the fields of a Client that checkSetup fills, with the package-level
\* variable each is filled from
Defaults ==
  [HTTPClient |-> "DefaultHTTPClient", Version |-> "DefaultVersion",
   RootURL |-> "DefaultRootURL", Limiter |-> "DefaultLimiter"]

\* HTTPRequest: c.checkSetup() reads AuthToken and the four fields and
\* writes those that are unset, each from its package-level default
GoCheckSetup(g) ==
  LET gr == goroutines[g]
      cl == memory.client[gr.client]
      unset == {f \in DOMAIN Defaults : cl[f] = ""}
  IN /\ gr.pc = "checkSetup"
     /\ memory' = [memory EXCEPT !.client[gr.client] = checkSetup(cl).c]
     /\ accesses' = accesses
          \cup Reads(g, {ClientField(gr.client, f) :
                           f \in {"AuthToken"} \cup DOMAIN Defaults})
          \cup Reads(g, {PackageVar(Defaults[f]) : f \in unset})
          \cup Writes(g, {ClientField(gr.client, f) : f \in unset})
     /\ GoTo(g, "makeURL")
     /\ UNCHANGED <<encoderVars, clientVars>>

\* HTTPRequest: c.makeURL(endpoint) reads RootURL, Version and AuthToken;
\* then the request is built
GoMakeURL(g) ==
  LET gr == goroutines[g]
  IN /\ gr.pc = "makeURL"
     /\ accesses' = accesses \cup
          Reads(g, {ClientField(gr.client, f) : f \in {"RootURL", "Version", "AuthToken"}})
     /\ GoTo(g, "Take")
     /\ UNCHANGED memory
     /\ UNCHANGED <<encoderVars, clientVars>>

\* HTTPRequest: c.Limiter.Take() reads the Limiter field
GoTake(g) ==
  LET gr == goroutines[g]
  IN /\ gr.pc = "Take"
     /\ accesses' = accesses \cup Reads(g, {ClientField(gr.client, "Limiter")})
     /\ GoTo(g, "Do")
     /\ UNCHANGED memory
     /\ UNCHANGED <<encoderVars, clientVars>>

\* HTTPRequest: c.HTTPClient.Do(req) reads the HTTPClient field; the answer
\* arrives and the operation returns, or SearchStories hands the page to
\* the loop of SearchStoriesAll
GoDo(g) ==
  LET gr == goroutines[g]
      a == SearchAnswer(GoServer, gr.content)
  IN /\ gr.pc = "Do"
     /\ accesses' = accesses \cup Reads(g, {ClientField(gr.client, "HTTPClient")})
     /\ IF gr.op # "SearchStoriesAll"
        THEN GoTo(g, "returned")
        ELSE IF statusError(a.StatusCode) # NoError
          THEN goroutines' = [goroutines EXCEPT
                 ![g].pc = "returned", ![g].err = statusError(a.StatusCode)]
        ELSE goroutines' = [goroutines EXCEPT
               ![g].pc = "page",
               ![g].page = <<jsonUnmarshalSearchResults(a.Body).page>>]
     /\ UNCHANGED memory
     /\ UNCHANGED <<encoderVars, clientVars>>

\* SearchStoriesAll, the body of its loop: collect; stop when Next is
\* empty, else params.Next = next and ask again
GoPage(g) ==
  LET gr == goroutines[g]
      page == gr.page[1]
      all == gr.collected \o page.Data
  IN /\ gr.pc = "page"
     /\ IF page.Next = ""
        THEN /\ goroutines' = [goroutines EXCEPT
                  ![g].pc = "returned", ![g].collected = all]
             /\ UNCHANGED <<memory, accesses>>
        ELSE /\ goroutines' = [goroutines EXCEPT
                  ![g].pc = "RequestResource", ![g].collected = all]
             /\ memory' = [memory EXCEPT
                  !.search[gr.params].Next = NextToken(page.Next).next]
             /\ accesses' = accesses \cup
                  Writes(g, {ParamsField("search", gr.params, "Next")})
     /\ UNCHANGED <<encoderVars, clientVars>>

\* the callers hold Client values, new or filled, and params values, and
\* start one operation in each of two goroutines
InitGoroutines ==
  /\ kind = "UpdateFileParams"
  /\ params = ZeroParams(kind)
  /\ heap = InitHeap
  /\ pc = "build"
  /\ wire = <<>>
  /\ body = ""
  /\ err = ""
  /\ op = "none"
  /\ takes = 0
  /\ requests = 0
  /\ ClientIdle
  /\ goroutines = [g \in Goroutines |-> NoGoroutine]
  /\ \E cls \in [ClientIds -> {NewClient, FilledClient}] :
       \E types \in [ParamsIds -> {"", CategoryTypeMilestone}] :
         memory = [client |-> cls,
                   category |-> [id \in ParamsIds |->
                                  [Color |-> "", ExternalID |-> "", Name |-> "steven",
                                   Type |-> types[id]]],
                   search |-> [id \in ParamsIds |-> NewSearchParams("")]]
  /\ accesses = {}

NextGoroutines ==
  \E g \in Goroutines :
    \/ \E o \in GoOperations : \E cid \in ClientIds : \E pid \in ParamsIds :
         GoStart(g, o, cid, pid)
    \/ GoCreateCategory(g)
    \/ GoMarshal(g)
    \/ GoCheckSetup(g)
    \/ GoMakeURL(g)
    \/ GoTake(g)
    \/ GoDo(g)
    \/ GoPage(g)

SpecGoroutines == InitGoroutines /\ [][NextGoroutines]_vars

(* ---- vocabulary of the properties ------------------------------------------- *)
\* a nullable (tri-state) field: its name, JSON key, Go type and the
\* sentinel reserved for resetting it
Nf(name, key, typ, reset) == [name |-> name, key |-> key, typ |-> typ, reset |-> reset]

\* the nullable fields of each params type that has them
Nullables(k) ==
  CASE k \in {"UpdateCategoryParams", "UpdateLabelParams"} ->
         {Nf("Color", "color", "*string", ResetColor)}
    [] k = "UpdateEpicParams" ->
         {Nf("CompletedAtOverride", "completed_at_override", "*time.Time", ResetTime),
          Nf("StartedAtOverride", "started_at_override", "*time.Time", ResetTime),
          Nf("Deadline", "deadline", "*time.Time", ResetTime),
          Nf("MilestoneID", "milestone_id", "*int", ResetID)}
    [] k = "UpdateStoryParams" ->
         {Nf("CompletedAtOverride", "completed_at_override", "*time.Time", ResetTime),
          Nf("StartedAtOverride", "started_at_override", "*time.Time", ResetTime),
          Nf("Deadline", "deadline", "*time.Time", ResetTime),
          Nf("EpicID", "epic_id", "*int", ResetID),
          Nf("Estimate", "estimate", "*int", ResetEstimate)}
    [] k = "UpdateStoriesParams" ->
         {Nf("Deadline", "deadline", "*time.Time", ResetTime),
          Nf("EpicID", "epic_id", "*int", ResetID),
          Nf("Estimate", "estimate", "*int", ResetEstimate)}
    [] k = "UpdateMilestoneParams" ->
         {Nf("CompletedAtOverride", "completed_at_override", "*time.Time", ResetTime),
          Nf("StartedAtOverride", "started_at_override", "*time.Time", ResetTime)}
    [] OTHER -> {}

\* a params value of a type with tri-state fields was encoded without error
Encoded == pc = "encoded" /\ err = "" /\ kind \in MarshalerKinds

\* the encoded object has key k / the raw value of key k
HasKey(k) == \E i \in 1..Len(wire) : wire[i].key = k
RawOf(k) == wire[CHOOSE i \in 1..Len(wire) : wire[i].key = k].raw

\* the state of nullable field nf in the caller's params value
IsAbsent(nf) == params[nf.name] = NIL
IsReset(nf) == params[nf.name] = nf.reset
IsValue(nf) == ~IsAbsent(nf) /\ ~IsReset(nf)
\* the value has a JSON encoding
Encodable(nf) == ~jsonMarshalValue(nf.typ, params[nf.name], heap).err
\* the JSON encoding of the dereferenced value
EncodingOf(nf) == jsonMarshalValue(nf.typ, params[nf.name], heap).raw

(* ---- C1 ------------------------------------------------------------------------ *)
\* C1: in every encoded object of a params type with tri-state fields, a
\* nullable field whose reference is nil has no key at all, whatever the
\* other fields hold.
C1_NilFieldAbsent ==
  Encoded => \A nf \in Nullables(kind) : IsAbsent(nf) => ~HasKey(nf.key)

\* an epic encoded with MilestoneID set and Deadline nil
C1_Witness ==
  /\ Encoded /\ kind = "UpdateEpicParams"
  /\ params.Deadline = NIL /\ params.MilestoneID # NIL
  /\ HasKey("milestone_id")

(* ---- C2 ------------------------------------------------------------------------ *)
\* C2: a nullable field set to its reserved reset sentinel is encoded as
\* its key mapped to the literal null.
C2_SentinelIsNull ==
  Encoded => \A nf \in Nullables(kind) :
               IsReset(nf) => HasKey(nf.key) /\ RawOf(nf.key) = "null"

\* a story encoded with Estimate: ResetEstimate and EpicID: ResetID
C2_Witness ==
  /\ Encoded /\ kind = "UpdateStoryParams"
  /\ params.Estimate = ResetEstimate /\ params.EpicID = ResetID

(* ---- C3 ------------------------------------------------------------------------ *)
\* C3 (as claimed): every nullable field holding a reference to a concrete,
\* encodable, non-sentinel value is encoded as its key mapped to the JSON
\* encoding of that value, and no nil nullable field appears, in every
\* combination of fields.
C3_ValueIsEncoded ==
  Encoded => \A nf \in Nullables(kind) :
               /\ IsValue(nf) /\ Encodable(nf) =>
                    HasKey(nf.key) /\ RawOf(nf.key) = EncodingOf(nf)
               /\ IsAbsent(nf) => ~HasKey(nf.key)

NoNullableSet == \A nf \in Nullables(kind) : IsAbsent(nf)

\* C5 (as claimed): whenever no nullable field reference is set, the
\* encoder produces exactly {}.
C5_NoNullableGivesEmptyObject ==
  (Encoded /\ NoNullableSet) => body = "{}"

\* the fields of p that hold something to send: set, and not a list
\* without elements
FilledFields(k, p) ==
  LET st == StructOf(k)
  IN {st[i].name : i \in {j \in 1..Len(st) :
        /\ p[st[j].name] # Zero(st[j].typ)
        /\ st[j].typ \in SliceTypes => p[st[j].name] # << <<>> >>}}

\* C5 (amended): whenever no nullable field reference is set, the object
\* holds no nullable field's key and exactly one member per plain field
\* that is set to something other than a list without elements; it is {}
\* exactly when there is no such field.
C5_NoNullableGivesPlainFieldsOnly ==
  (Encoded /\ NoNullableSet) =>
     /\ \A nf \in Nullables(kind) : ~HasKey(nf.key)
     /\ Len(wire) = Cardinality(FilledFields(kind, params))
     /\ (body = "{}") <=> (FilledFields(kind, params) = {})

\* an epic encoded with only Name set: {"name":"steven"}
C5_Witness ==
  /\ Encoded /\ NoNullableSet /\ kind = "UpdateEpicParams"
  /\ params.Name = "steven" /\ body = "{\"name\":\"steven\"}"

(* ---- C6 ------------------------------------------------------------------------ *)
ColorKinds == {"UpdateCategoryParams", "UpdateLabelParams"}

\* C6 (as claimed): for UpdateCategoryParams and UpdateLabelParams every
\* non-nil Color reference whose content is the empty string is encoded
\* as "color": null; "color": "" is never emitted.
C6_EmptyColorIsAlwaysNull ==
  (Encoded /\ kind \in ColorKinds /\ params.Color # NIL) =>
     (heap[params.Color] = "" => RawOf("color") = "null")

\* C6 (amended): MarshalJSON of UpdateCategoryParams and UpdateLabelParams
\* encodes Color as null exactly when the reference is the ResetColor
\* instance; any other reference with empty content (EmptyString, a new
\* String("")) is encoded as "color": "".  Only the content-based
\* UpdateCategory never emits "color": "".
C6_OnlyResetColorIsNull ==
  /\ (Encoded /\ kind \in ColorKinds /\ params.Color # NIL) =>
       /\ HasKey("color")
       /\ (RawOf("color") = "null") <=> (params.Color = ResetColor)
       /\ (params.Color # ResetColor /\ heap[params.Color] = "") =>
            RawOf("color") = Quote("")
  /\ (kind = OldKind /\ pc = "encoded" /\ HasKey("color")) =>
       RawOf("color") # Quote("")

\* a category encoded with Color: EmptyString gives "color": ""
C6_Witness ==
  /\ Encoded /\ kind = "UpdateCategoryParams"
  /\ params.Color = EmptyString /\ body = "{\"color\":\"\"}"

(* ---- C7 ------------------------------------------------------------------------ *)
\* the reference is not the sentinel but points to the sentinel's content
LooksLikeReset(nf) ==
  IsValue(nf) /\ heap[params[nf.name]] = heap[nf.reset]

\* C7 (as claimed): reset is detected by pointer identity only: a
\* reference that is not the sentinel instance is encoded as its value,
\* not as null, even when its content equals the sentinel's content.
C7_ResetByIdentityOnly ==
  Encoded => \A nf \in Nullables(kind) :
               LooksLikeReset(nf) =>
                 HasKey(nf.key) /\ RawOf(nf.key) # "null"

(* ---- C8 ------------------------------------------------------------------------ *)
\* some nullable field holds a concrete value whose JSON encoding fails
SomeValueUnencodable ==
  \E nf \in Nullables(kind) : IsValue(nf) /\ ~Encodable(nf)

\* C8 (as claimed): if the encoding of the concrete value of a nullable
\* field fails, encoding the params value fails with an error and yields
\* no body.
C8_ValueErrorFailsEncoding ==
  (pc = "encoded" /\ kind \in MarshalerKinds /\ SomeValueUnencodable) =>
     err = "marshal" /\ body = ""

(* ---- C9 ------------------------------------------------------------------------ *)
\* C9 (as claimed): encoding or sending the params value the caller holds
\* once more yields the same bytes as before.
C9_SameBytesEveryTime ==
  [][(pc = "encoded" /\ pc' = "encoded") => (body' = body /\ wire' = wire)]_vars

(* ---- C10 ----------------------------------------------------------------------- *)
\* C10: the encoder is pure: a json.Marshal step takes no limiter slot and
\* sends nothing, and the encoding (alone or inside an update operation of
\* the current client) leaves the params value and every cell of the heap,
\* the package-level sentinels included, unchanged.
C10_EncoderIsPure ==
  [][/\ op' = "Marshal" => UNCHANGED <<params, heap, takes, requests>>
     /\ op' = "Update" => UNCHANGED <<params, heap>>]_vars

\* an epic holding a sentinel and a new cell was encoded by json.Marshal
\* after a request had been sent
C10_Witness ==
  /\ op = "Marshal" /\ kind = "UpdateEpicParams" /\ requests > 0
  /\ params.MilestoneID = ResetID /\ params.Deadline = NewCell("Deadline")

(* ---- decoding an encoded object through the params schema ------------------------ *)
\* json.Unmarshal of the raw member text into a field of pointer type typ:
\* <<>> when the pointer stays nil (the text is null), <<v>> when it is set
\* to a new cell holding the value v the text denotes
jsonUnmarshalValue(typ, raw) ==
  IF raw = "null" THEN <<>>
  ELSE LET vs == {v \in NewValues(typ) :
                   jsonMarshalValue(typ, "p", [a \in {"p"} |-> v]) = Ok(raw)}
       IN <<CHOOSE v \in vs : TRUE>>

\* what nullable field nf holds after the encoded object was decoded into
\* a zero params value: a key that is missing leaves the pointer nil
Decoded(nf) ==
  IF HasKey(nf.key) THEN jsonUnmarshalValue(nf.typ, RawOf(nf.key)) ELSE <<>>

(* ---- C11 ----------------------------------------------------------------------- *)
\* C11 (as claimed): decoding the encoded object through the same field
\* schema gives, for every nullable field that held a concrete value,
\* exactly that value, and no value for a field that was reset or nil.
C11_RoundTrip ==
  Encoded => \A nf \in Nullables(kind) :
               /\ IsValue(nf) => Decoded(nf) = <<heap[params[nf.name]]>>
               /\ ~IsValue(nf) => Decoded(nf) = <<>>

(* ---- C12 ----------------------------------------------------------------------- *)
\* the struct json.Marshal walks for a params type: the wire struct of its
\* MarshalJSON, or the params struct itself
WireStruct(k) ==
  CASE k = "UpdateCategoryParams" -> updateCategoryParamsResolved
    [] k = "UpdateLabelParams" -> updateLabelParamsResolved
    [] k = "UpdateEpicParams" -> updateEpicParamsResolved
    [] k = "UpdateStoryParams" -> updateStoryParamsResolved
    [] k = "UpdateStoriesParams" -> updateStoriesParamsResolved
    [] k = "UpdateMilestoneParams" -> updateMilestoneParamsResolved
    [] OTHER -> ParamsStruct(k)

\* the reference-typed fields without reset capability: the pointers and
\* slices copied into the wire struct as they are
PassThrough(k) ==
  {WireStruct(k)[i] : i \in {j \in 1..Len(WireStruct(k)) :
      WireStruct(k)[j].typ \in PointerTypes \cup SliceTypes}}

\* C12 (as claimed): a reference-typed field without reset capability that
\* is not nil is sent under its key with the encoding of its value, also
\* when the value is empty or zero; it is never null and never omitted.
C12_PassThroughAlwaysSent ==
  (pc = "encoded" /\ err = "") =>
     \A fd \in PassThrough(kind) :
        params[fd.name] # Zero(fd.typ) =>
          /\ HasKey(fd.key)
          /\ RawOf(fd.key) = jsonMarshalValue(fd.typ, params[fd.name], heap).raw
          /\ RawOf(fd.key) # "null"

(* ---- vocabulary of the client properties ------------------------------------------ *)
\* the status codes HTTPRequest maps to an error
MappedStatus == {400, 401, 404, 422, 500}

\* the messages the bodies of the model carry
Messages == {jsonUnmarshalErrMessage(b).Message : b \in ResponseBodies}

\* the errors that are of the kind of status code `code`: the package-level
\* value, or that value's text with a message appended
ErrorKind(code) ==
  {statusError(code)}
    \cup {errorString(ErrorText(statusError(code)) \o ": " \o m) : m \in Messages}

\* e is what HTTPRequest returns after its switch found a mapped status:
\* the only ErrClientRequest that carries the body read from the response
FromStatus(e) == e.type = "ErrClientRequest" /\ e.ResponseBody # NoBytes

\* the number of transmissions (HTTPClient.Do) of the running operation
Sends == Cardinality({i \in 1..Len(log) : log[i] = "Do"})

(* ---- C13 ----------------------------------------------------------------------- *)
\* C13: when the transport and the reading of the body succeeded (the
\* switch is reached), HTTPRequest returns an error exactly when the status
\* is 400, 401, 404, 422 or 500, an error of the kind of that status, and
\* the kinds of two different statuses share no error; for every other
\* status it returns the response body and no error.
C13_ErrorExactlyOnMappedStatus ==
  [][(cpc = "switch" /\ cpc' # "switch") =>
       /\ (ret'.err # NoError) <=> (resp.StatusCode \in MappedStatus)
       /\ resp.StatusCode \in MappedStatus =>
            /\ ret'.err.type = "ErrClientRequest"
            /\ ret'.err.Err \in ErrorKind(resp.StatusCode)
            /\ \A other \in MappedStatus \ {resp.StatusCode} :
                 ret'.err.Err \notin ErrorKind(other)
            /\ ret'.bytes = NoBytes
       /\ resp.StatusCode \notin MappedStatus =>
            ret'.bytes = <<resp.Body>>]_vars

\* HTTPRequest has returned the body of a 503 answer without error
C13_Witness ==
  /\ cpc = "HTTPRequest returned" /\ resp.StatusCode = 503
  /\ ret.err = NoError /\ ret.bytes = <<"<html>">>

(* ---- C14 ----------------------------------------------------------------------- *)
\* C14 (as claimed): after a mapped status the returned error is an
\* ErrClientRequest whose Err field equals the package-level error value
\* of that status.
C14_ErrEqualsPackageValue ==
  (cpc \in {"HTTPRequest returned", "returned"} /\ FromStatus(ret.err)) =>
     ret.err.Err = statusError(ret.err.Response.StatusCode)

(* ---- C15 ----------------------------------------------------------------------- *)
\* C15: after 422, a body that decodes as an object with a message gets
\* that message appended to the error detail (Err); a body that does not
\* decode leaves the plain ErrUnprocessable; after any other mapped
\* status Err is the plain package-level value, whatever the body holds.
C15_MessageAppendedOn422Only ==
  FromStatus(ret.err) =>
     LET code == ret.err.Response.StatusCode
         bytes == ret.err.ResponseBody[1]
         message == jsonUnmarshalErrMessage(bytes)
     IN /\ (code = 422 /\ ~message.err /\ jsonParse(bytes).message # <<>>) =>
             ret.err.Err =
               errorString(ErrorText(ErrUnprocessable) \o ": " \o message.Message)
        /\ (code = 422 /\ message.err) => ret.err.Err = ErrUnprocessable
        /\ code # 422 => ret.err.Err = statusError(code)

\* CreateCategory got 422 with a message, and both are in the error
C15_Witness ==
  /\ cpc = "returned" /\ call.op = "CreateCategory" /\ FromStatus(ret.err)
  /\ ret.err.Response.StatusCode = 422
  /\ ret.err.Err.Message = "Unprocessable (422): name taken"

(* ---- C16 ----------------------------------------------------------------------- *)
\* C16: within an operation every transmission (HTTPClient.Do) comes
\* right after a completed Limiter.Take(), and every Take() but the first
\* comes right after a transmission: one acquire per request, before it.
C16_TakeBeforeEveryDo ==
  \A i \in 1..Len(log) :
     /\ log[i] = "Do" => (i > 1 /\ log[i - 1] = "Take")
     /\ log[i] = "Take" => (i = 1 \/ log[i - 1] = "Do")

\* SearchStoriesAll has returned after two requests, each after its Take()
C16_Witness ==
  /\ cpc = "returned" /\ call.op = "SearchStoriesAll"
  /\ log = <<"Take", "Do", "Take", "Do">>

(* ---- C17 ----------------------------------------------------------------------- *)
\* the number of pages a list of collected stories is made of
PagesIn(stories) == Len(stories) \div Len(Page(1, 1).Data)

\* C17: an operation other than SearchStoriesAll transmits at most one
\* request, also when that request fails; SearchStoriesAll transmits one
\* request per page: as many as it has collected pages, plus the one whose
\* answer is awaited or has failed, and exactly as many as pages when it
\* returns its result.
C17_OneRequestPerCall ==
  /\ call.op # "SearchStoriesAll" => Sends <= 1
  /\ call.op = "SearchStoriesAll" =>
       /\ Sends \in {PagesIn(collected), PagesIn(collected) + 1}
       /\ (cpc = "returned" /\ ret.err = NoError) => Sends = PagesIn(collected)

\* GetCategory has returned the transport's error after its only request
C17_Witness ==
  /\ cpc = "returned" /\ call.op = "GetCategory" /\ Sends = 1
  /\ ret.err.type = "ErrClientRequest"
  /\ ret.err.Err = TransportError

(* ---- C18 ----------------------------------------------------------------------- *)
\* the page a token asks for
PageOf(token) == CHOOSE i \in 1..MaxPages + 1 : Token(i) = token

\* the stories of the pages i, i + 1, ... up to the last page of server sv
RECURSIVE DataFrom(_, _)
DataFrom(sv, i) ==
  IF i > sv.pages THEN <<>> ELSE ServerPage(sv, i).Data \o DataFrom(sv, i + 1)

C19_NoTokenPanicsFirst ==
  c.AuthToken = "" =>
     /\ cpc \in {"idle", "RequestResource", "checkSetup", "panicked", "returned"}
     /\ cpc = "returned" => ret.err.type = "*errors.errorString"
     /\ log = <<>>
     /\ req = NoRequest
     /\ call.url = ""

\* DeleteCategory on a Client without AuthToken has panicked
C19_Witness ==
  /\ cpc = "panicked" /\ c.AuthToken = "" /\ call.op = "DeleteCategory"
  /\ c.Limiter = "" /\ log = <<>>

(* ---- C20 ----------------------------------------------------------------------- *)
\* json.Marshal(params) of the running operation fails
MarshalFails ==
  IF call.params = NoParams THEN FALSE
  ELSE jsonMarshalParams(call.params, sp).err

\* the bytes decode into the resource of the running operation
Decodes(bytes) ==
  IF call.op \in {"SearchStories", "SearchStoriesAll"}
  THEN jsonUnmarshalSearchResults(bytes).err = NoError
  ELSE jsonUnmarshalResource(call.resource, bytes) = NoError

\* C20: when json.Marshal(params) fails, RequestResource returns at once
\* an error that names the cause, without limiter acquire, request or
\* transmission; and when HTTPRequest succeeded but the body does not
\* decode into the resource, the operation returns an error and no
\* resource.
C20_EncodeDecodeErrorsReturned ==
  [][/\ (cpc = "RequestResource" /\ cpc' # cpc /\ MarshalFails) =>
          /\ cpc' = "returned"
          /\ ret'.err =
               errorString("could not marshal params, json: error calling MarshalJSON")
          /\ ret'.value = <<>>
          /\ log' = <<>> /\ req' = NoRequest
     /\ (cpc = "HTTPRequest returned" /\ cpc' # cpc /\ ret.err = NoError
           /\ call.resource # NoResource /\ ~Decodes(ret.bytes[1])) =>
          /\ cpc' = "returned"
          /\ ret'.err # NoError
          /\ ret'.value = <<>>]_vars

\* UpdateFile with a CreatedAt of the year 10000 has returned the marshal
\* error on a configured client, nothing sent
C20_Witness ==
  /\ cpc = "returned" /\ call.op = "UpdateFile" /\ c.AuthToken = "token"
  /\ ret.err.Message = "could not marshal params, json: error calling MarshalJSON"
  /\ log = <<>>

(* ---- C21 ----------------------------------------------------------------------- *)
\* HTTPClient.Do of the running operation has just failed: the only step
\* from the transmission that does not go on to read a response
DoFailed == cpc = "Do" /\ cpc' # "Do" /\ cpc' # "ReadAll"

\* C21 as claimed: when the transport fails, the error HTTPRequest returns
\* to its caller is the transport's own error value.
C21_TransportErrorAsIs ==
  [][DoFailed => ret'.err = TransportError]_vars

\* C21: when the transport fails, HTTPRequest returns at once, without a
\* further limiter acquire or transmission, an ErrClientRequest whose Err
\* is the transport's own error value, with the method, URL and request
\* body and no response; RequestResource and the operations built on it
\* hand that ErrClientRequest to their caller unchanged, and UploadFiles
\* hands on a new error made of its text.
C21_TransportErrorInsideErrClientRequest ==
  [][/\ DoFailed =>
          /\ cpc' \in {"returned", "HTTPRequest returned"}
          /\ log' = Append(log, "Do")
          /\ ret'.err.type = "ErrClientRequest"
          /\ ret'.err.Err = TransportError
          /\ ret'.err.Method = call.method /\ ret'.err.URL = call.url
          /\ ret'.err.RequestBody = call.content
          /\ ret'.err.Response = NoResponse
          /\ ret'.bytes = NoBytes
     /\ (cpc = "HTTPRequest returned" /\ cpc' # cpc
           /\ ret.err.type = "ErrClientRequest" /\ ret.err.Err = TransportError) =>
          /\ cpc' = "returned"
          /\ log' = log
          /\ ret'.value = <<>>
          /\ IF call.op = "UploadFiles"
             THEN ret'.err = errorString("UploadFiles: error making request: "
                                         \o ErrorText(ret.err))
             ELSE ret'.err = ret.err]_vars

\* GetCategory has returned the ErrClientRequest of a failed transmission,
\* one limiter acquire and one transmission made
C21_Witness ==
  /\ cpc = "returned" /\ call.op = "GetCategory"
  /\ ret.err.type = "ErrClientRequest" /\ ret.err.Err = TransportError
  /\ log = <<"Take", "Do">>

(* ---- C22 ----------------------------------------------------------------------- *)
\* C22: the error HTTPRequest returns after a status of 400, 401, 404, 422
\* or 500 is an ErrClientRequest that holds the method and the URL of the
\* request that was transmitted (the root URL, version and resource path
\* with the token), the body that was sent and the body that was
\* received; RequestResource and the operations built on it return that
\* value unchanged.
C22_StatusErrorCarriesRequestAndResponse ==
  [][/\ (cpc = "switch" /\ cpc' # cpc /\ resp.StatusCode \in MappedStatus) =>
          /\ ret'.err.type = "ErrClientRequest"
          /\ ret'.err.Method = req.Method
          /\ ret'.err.URL = req.URL
          /\ ret'.err.URL = makeURL(c, call.uri).url
          /\ ret'.err.RequestBody = req.Body
          /\ ret'.err.ResponseBody = <<resp.Body>>
          /\ ret'.err.Request = req /\ ret'.err.Response = resp
     /\ (cpc = "HTTPRequest returned" /\ cpc' # cpc /\ call.op # "UploadFiles"
           /\ ret.err.type = "ErrClientRequest"
           /\ ret.err.Response.StatusCode \in MappedStatus) =>
          /\ cpc' = "returned"
          /\ ret'.err = ret.err]_vars

\* CreateCategory has returned the error of a 404 answer: it holds POST,
\* the URL of the categories on the local server, the encoded params and
\* the HTML page received
C22_Witness ==
  /\ cpc = "returned" /\ call.op = "CreateCategory"
  /\ ret.err.type = "ErrClientRequest" /\ ret.err.Err = ErrResourceNotFound
  /\ ret.err.Method = "POST"
  /\ ret.err.URL = "http://localhost:8080/v2/categories?token=token"
  /\ ret.err.RequestBody = "{\"name\":\"steven\",\"type\":\"milestone\"}"
  /\ ret.err.ResponseBody = <<"<html>">>

(* ---- C23 ----------------------------------------------------------------------- *)
\* the locations one goroutine has written and the other has read or
\* written
SharedWrites ==
  {a.loc : a \in {x \in accesses : x.write /\
                    \E y \in accesses : y.g # x.g /\ y.loc = x.loc}}

\* C23 as claimed: whatever two operations run in two goroutines, on the
\* same or on different Clients and params, neither writes a Client field,
\* a params field or a package-level variable that the other reads or
\* writes.
C23_NoSharedWrites == SharedWrites = {}

(* ---- C24 ----------------------------------------------------------------------- *)
\* C24: whatever HTTPRequest or an operation returns, an error comes with
\* neither bytes nor result; HTTPRequest without error returns the bytes,
\* an operation with a resource that returns no error returns its result;
\* and SearchStoriesAll that returns an error returns nothing of what it
\* had collected.
C24_AllOrNothing ==
  /\ cpc \in {"HTTPRequest returned", "returned"} =>
       /\ ret.err # NoError => (ret.bytes = NoBytes /\ ret.value = <<>>)
       /\ (cpc = "HTTPRequest returned" \/ call.op = "HTTPRequest") =>
            (ret.err = NoError <=> ret.bytes # NoBytes)
  /\ (cpc = "returned" /\ ret.err = NoError /\ call.resource # NoResource) =>
       ret.value # <<>>
  /\ (cpc = "returned" /\ call.op = "SearchStoriesAll" /\ ret.err # NoError) =>
       ret.value = <<>>

\* SearchStoriesAll has returned an error and no stories after it had
\* collected the stories of the first page
C24_Witness ==
  /\ cpc = "returned" /\ call.op = "SearchStoriesAll"
  /\ ret.err # NoError /\ ret.value = <<>>
  /\ collected = <<1, 2>>

(* ---- C25 ----------------------------------------------------------------------- *)
\* the state of nullable field nf in params value p with heap h: absent,
\* reset, or a value
TriState(nf, p, h) ==
  IF p[nf.name] = NIL THEN <<"absent">>
  ELSE IF p[nf.name] = nf.reset THEN <<"reset">>
  ELSE <<"value", h[p[nf.name]]>>

\* the params values that differ from the caller's in field nf only: nil,
\* a package-level pointer, or a pointer to a new cell
Variations(nf) ==
  {[p |-> [params EXCEPT ![nf.name] = a], h |-> heap] :
     a \in {NIL} \cup Statics(nf.typ)}
  \cup {[p |-> [params EXCEPT ![nf.name] = NewCell(nf.name)],
         h |-> Alloc(heap, NewCell(nf.name), v)] : v \in NewValues(nf.typ)}

\* C25 (as claimed): a params value that differs from the encoded one in
\* the state (absent, value v, reset) of a nullable field encodes to a
\* different JSON document, whatever the other fields hold.
C25_TriStateLossless ==
  Encoded => \A nf \in Nullables(kind) : \A q \in Variations(nf) :
               TriState(nf, q.p, q.h) # TriState(nf, params, heap) =>
                 jsonMarshal(kind, q.p, q.h).bytes # body

(* ---- C26 ----------------------------------------------------------------------- *)
\* no operation is running: none was started, or the last one has
\* returned or panicked
Stopped == cpc \in {"idle", "returned", "panicked"}

\* C26 (as claimed): every search a caller starts against a server that
\* holds finitely many pages comes to its end: it returns a result or an
\* error (or panics), whatever next-page URL the pages carry.
C26_SearchTerminates == (~Stopped) ~> Stopped

(* ---- C27 ----------------------------------------------------------------------- *)
\* C27 (as claimed): when SearchStoriesAll has returned, with a result or
\* with an error, the caller's SearchParams holds what it held when the
\* operation was called.
C27_SearchParamsUnchanged ==
  (call.op = "SearchStoriesAll" /\ cpc = "returned") =>
     sp = call.params[1].value

(* ---- C28 ----------------------------------------------------------------------- *)
\* the URL of item `id` of a collection on the client's server
ItemURL(collection, id) ==
  urlParse(c.RootURL).host
    \o pathJoin(urlParse(c.RootURL).path \o <<c.Version, collection, itoa(id)>>)
    \o "?token=" \o c.AuthToken

\* C28 (as claimed): the request a Get, Update or Delete of the item `id`
\* transmits addresses {collection}/{id}, for every id, 0 included, and
\* never the collection.
C28_ItemPathForEveryID ==
  (cpc = "Do" /\ "id" \in DOMAIN call) =>
     /\ call.uri = <<call.collection, itoa(call.id)>>
     /\ req.URL = ItemURL(call.collection, call.id)

(* ---- C29 ----------------------------------------------------------------------- *)
\* the update-params types that have a Color field
KindsWithColor == {k \in Kinds : "Color" \in FieldNames(StructOf(k))}

\* C29 (as claimed): in every update-params type that has a Color field,
\* Color: ResetColor is encoded as "color": null.
C29_ResetColorIsNullEverywhere ==
  (pc = "encoded" /\ err = "" /\ kind \in KindsWithColor
     /\ params.Color = ResetColor) =>
       HasKey("color") /\ RawOf("color") = "null"

(* ---- C30 ----------------------------------------------------------------------- *)
\* the four fields checkSetup fills, with the default of each
DefaultOf ==
  [HTTPClient |-> DefaultHTTPClient, Version |-> DefaultVersion,
   RootURL |-> DefaultRootURL, Limiter |-> DefaultLimiter]

\* the four fields of Client value cl are set
Filled(cl) == \A f \in DOMAIN DefaultOf : cl[f] # ""

\* C30: when HTTPRequest has passed checkSetup on a Client with an
\* AuthToken, HTTPClient, Version, RootURL and Limiter are all set: a
\* field the caller had set holds the caller's value, an unset one its
\* default; no other statement writes the Client; and once the four are
\* set no later request changes them.
C30_DefaultsFilledOnceAndKept ==
  [][/\ (cpc = "checkSetup" /\ cpc' # cpc /\ c.AuthToken # "") =>
          /\ Filled(c')
          /\ c'.AuthToken = c.AuthToken
          /\ \A f \in DOMAIN DefaultOf :
               c'[f] = IF c[f] # "" THEN c[f] ELSE DefaultOf[f]
     /\ cpc # "checkSetup" => c' = c
     /\ Filled(c) => c' = c]_vars

\* the second request on a Client made with a root URL and a limiter has
\* returned: both are the caller's, Version and HTTPClient the defaults
C30_Witness ==
  /\ calls = 2 /\ cpc = "returned" /\ log # <<>>
  /\ c = Client("token", LocalRootURL, DefaultVersion, DefaultHTTPClient,
                "RateLimiter(0)")

====
